---------------------------- MODULE Spec2Model ----------------------------
(***************************************************************************)
(* Personal Life OS: the record store (database.py), the classification   *)
(* adapter (claude_client.py, models.py) and the free-text router of the  *)
(* two chat entry points (bot.py, webhook_bot.py).                        *)
(*                                                                         *)
(* Conventions.                                                            *)
(*   Optional[T]   a set: {} is None, {v} is the value v.                  *)
(*   float grams   an integer number of hundredths; a value with one      *)
(*                 decimal place is a multiple of 10.                      *)
(*   confidence    an integer number of hundredths, so [0.0, 1.0] is       *)
(*                 0..100.                                                 *)
(*   created_at    an integer instant; a calendar day is TicksPerDay       *)
(*                 consecutive instants.                                   *)
(***************************************************************************)
EXTENDS Integers, Sequences, FiniteSets, TLC

VARIABLES
    db,       \* the Supabase tables and their id generators
    now,      \* the wall clock (the server's and the database's)
    outbox,   \* the messages the last chat request sent to the user
    last,     \* the last call made on the core and what it returned
    pc,       \* per worker: position inside a request handled step by step
    session_state   \* the dashboard session: the deletes awaiting confirmation

vars == <<db, now, outbox, last, pc, session_state>>

---------------------------------------------------------------------------
(* Bounds of the model.                                                    *)

MaxRecords  == 2     \* rows ever inserted into notes + food_logs + workouts
MaxDay      == 1     \* calendar days are 0..MaxDay
TicksPerDay == 2     \* instants per calendar day
NotesLastDay == 30   \* the /notes model runs over the days 0..NotesLastDay

Owners  == {1, 2}    \* telegram ids
Workers == {1, 2}    \* concurrently served requests (step-level model)
Days    == 0..MaxDay

---------------------------------------------------------------------------
(* Time: database.py:12-17.                                                *)

DayOf(t)      == t \div TicksPerDay
StartOfDay(d) == d * TicksPerDay
EndOfDay(d)   == d * TicksPerDay + (TicksPerDay - 1)

Truthy(opt) == opt # {} /\ opt # {0}

---------------------------------------------------------------------------
(* The tables.  Rows carry the columns the code reads or writes; ids are   *)
(* drawn from per-table generators and never reused.                       *)

EmptyDb ==
    [users |-> {}, notes |-> {}, food_logs |-> {}, workouts |-> {},
     next_user |-> 1, next_note |-> 1, next_food |-> 1, next_workout |-> 1]

RowsInserted(d) == (d.next_note - 1) + (d.next_food - 1) + (d.next_workout - 1)

(* response.data[0] of an unordered select: rows come back in insertion    *)
(* order, the row with the smallest id first.                              *)
First(rows) == CHOOSE r \in rows : \A q \in rows : r.id <= q.id

UsersByTelegramId(d, tid) == {u \in d.users : u.telegram_id = tid}

NewUserNoTarget(d, tid) ==
    [id |-> d.next_user, telegram_id |-> tid, daily_calorie_target |-> {},
     current_weight |-> {}, goal_weight |-> {}, protein_target |-> {},
     carbs_target |-> {}, fat_target |-> {}]

(* database.py:35: the row inserted for a new owner; the columns not named *)
(* there are NULL.                                                         *)
NewUser(d, tid) ==
    [id |-> d.next_user, telegram_id |-> tid, daily_calorie_target |-> {2000},
     current_weight |-> {}, goal_weight |-> {}, protein_target |-> {},
     carbs_target |-> {}, fat_target |-> {}]

(* database.py:26-37.  Returns the store after the call and the row.       *)
GetOrCreateUser(d, tid) ==
    IF UsersByTelegramId(d, tid) # {}
    THEN [db |-> d, user |-> First(UsersByTelegramId(d, tid))]
    ELSE [db   |-> [d EXCEPT !.users = @ \cup {NewUser(d, tid)},
                             !.next_user = @ + 1],
          user |-> NewUser(d, tid)]

UpdateEveryProfile(d, tid, target) ==
    [db  |-> [d EXCEPT !.users =
                 {[u EXCEPT !.daily_calorie_target = target] : u \in d.users}],
     ret |-> IF UsersByTelegramId(d, tid) # {} THEN {tid} ELSE {}]

(* database.py:39-46: an UPDATE ... WHERE telegram_id = tid.                *)
UpdateUserProfile(d, tid, target) ==
    [db  |-> [d EXCEPT !.users =
                 {IF u.telegram_id = tid
                  THEN [u EXCEPT !.daily_calorie_target = target] ELSE u
                  : u \in d.users}],
     ret |-> IF UsersByTelegramId(d, tid) # {} THEN {tid} ELSE {}]

(* database.py:39-46 with any dictionary of updates, a record from column  *)
(* names to new values.                                                    *)
UpdateUserColumns(d, tid, updates) ==
    [db  |-> [d EXCEPT !.users =
                 {IF u.telegram_id = tid
                  THEN [f \in DOMAIN u |->
                          IF f \in DOMAIN updates THEN updates[f] ELSE u[f]]
                  ELSE u
                  : u \in d.users}],
     ret |-> IF UsersByTelegramId(d, tid) # {} THEN {tid} ELSE {}]

(* database.py:54-60.                                                       *)
InsertNote(d, tid, content, summary, tags, t) ==
    LET g   == GetOrCreateUser(d, tid)
        row == [id |-> g.db.next_note, user_id |-> g.user.id, created_at |-> t,
                content |-> content, summary |-> summary, tags |-> tags]
    IN  [db  |-> [g.db EXCEPT !.notes = @ \cup {row}, !.next_note = @ + 1],
         row |-> row]

(* database.py:103-110.                                                     *)
InsertFoodLog(d, tid, food_description, calories, protein, carbs, fat, t) ==
    LET g   == GetOrCreateUser(d, tid)
        row == [id |-> g.db.next_food, user_id |-> g.user.id, created_at |-> t,
                food_description |-> food_description, calories |-> calories,
                protein |-> protein, carbs |-> carbs, fat |-> fat]
    IN  [db  |-> [g.db EXCEPT !.food_logs = @ \cup {row}, !.next_food = @ + 1],
         row |-> row]

(* database.py:154-161.                                                     *)
InsertWorkout(d, tid, activity_type, duration_mins, distance_km, notes, t) ==
    LET g   == GetOrCreateUser(d, tid)
        row == [id |-> g.db.next_workout, user_id |-> g.user.id, created_at |-> t,
                activity_type |-> activity_type, duration_mins |-> duration_mins,
                distance_km |-> distance_km, notes |-> notes]
    IN  [db  |-> [g.db EXCEPT !.workouts = @ \cup {row}, !.next_workout = @ + 1],
         row |-> row]

InRangeAnyOwner(rows, uid, startDay, endDay) ==
    {r \in rows : /\ r.created_at >= StartOfDay(startDay)
                  /\ r.created_at <= EndOfDay(endDay)}

(* The filter every time-bounded query applies:                             *)
(* .eq("user_id", uid).gte("created_at", start).lte("created_at", end)      *)
InRange(rows, uid, startDay, endDay) ==
    {r \in rows : /\ r.user_id = uid
                  /\ r.created_at >= StartOfDay(startDay)
                  /\ r.created_at <= EndOfDay(endDay)}

RECURSIVE SumCalories(_)
SumCalories(rows) ==
    IF rows = {} THEN 0
    ELSE LET r == CHOOSE x \in rows : TRUE
         IN  r.calories + SumCalories(rows \ {r})

RECURSIVE SumProtein(_)
SumProtein(rows) ==
    IF rows = {} THEN 0
    ELSE LET r == CHOOSE x \in rows : TRUE
         IN  r.protein + SumProtein(rows \ {r})

RECURSIVE SumCarbs(_)
SumCarbs(rows) ==
    IF rows = {} THEN 0
    ELSE LET r == CHOOSE x \in rows : TRUE
         IN  r.carbs + SumCarbs(rows \ {r})

RECURSIVE SumFat(_)
SumFat(rows) ==
    IF rows = {} THEN 0
    ELSE LET r == CHOOSE x \in rows : TRUE
         IN  r.fat + SumFat(rows \ {r})

RECURSIVE SumDuration(_)
SumDuration(rows) ==
    IF rows = {} THEN 0
    ELSE LET r == CHOOSE x \in rows : TRUE
         IN  r.duration_mins + SumDuration(rows \ {r})

(* database.py:112-130.                                                     *)
GetDailyNutrition(d, tid, targetDate) ==
    LET g    == GetOrCreateUser(d, tid)
        logs == InRange(g.db.food_logs, g.user.id, targetDate, targetDate)
    IN  [db  |-> g.db,
         ret |-> [total_calories |-> SumCalories(logs),
                  total_protein  |-> SumProtein(logs),
                  total_carbs    |-> SumCarbs(logs),
                  total_fat      |-> SumFat(logs),
                  entry_count    |-> Cardinality(logs),
                  entries        |-> logs]]

(* database.py:163-173.                                                     *)
GetDailyWorkouts(d, tid, targetDate) ==
    LET g == GetOrCreateUser(d, tid)
    IN  [db  |-> g.db,
         ret |-> InRange(g.db.workouts, g.user.id, targetDate, targetDate)]

(* database.py:48-50.                                                       *)
GetUserProfile(d, tid) == GetOrCreateUser(d, tid)

CaloriesRemainingZeroed(target, total) ==
    IF Truthy(target)
    THEN {IF total > (CHOOSE c \in target : TRUE) THEN 0
          ELSE (CHOOSE c \in target : TRUE) - total}
    ELSE {}

(* database.py:201-202.                                                     *)
CaloriesRemaining(target, total) ==
    IF Truthy(target) THEN {(CHOOSE c \in target : TRUE) - total} ELSE {}

(* database.py:187-216.                                                     *)
GetDailySummary(d, tid, targetDate) ==
    LET g         == GetOrCreateUser(d, tid)
        nutrition == GetDailyNutrition(g.db, tid, targetDate).ret
        workouts  == GetDailyWorkouts(g.db, tid, targetDate).ret
        notesResp == InRange(g.db.notes, g.user.id, targetDate, targetDate)
        target    == g.user.daily_calorie_target
    IN  [db  |-> g.db,
         ret |-> [date               |-> targetDate,
                  total_calories     |-> nutrition.total_calories,
                  total_protein      |-> nutrition.total_protein,
                  total_carbs        |-> nutrition.total_carbs,
                  total_fat          |-> nutrition.total_fat,
                  calories_target    |-> target,
                  calories_remaining |->
                      CaloriesRemaining(target, nutrition.total_calories),
                  food_entries       |-> nutrition.entry_count,
                  workout_count      |-> Cardinality(workouts),
                  workout_minutes    |-> SumDuration(workouts),
                  notes_count        |-> Cardinality(notesResp)]]

NotesAfterStartInstant(d, tid, start_date, end_date) ==
    LET g == GetOrCreateUser(d, tid)
    IN  [db  |-> g.db,
         ret |-> {r \in g.db.notes :
                    /\ r.user_id = g.user.id
                    /\ r.created_at > StartOfDay(start_date)
                    /\ r.created_at <= EndOfDay(end_date)}]

(* database.py:91-99.                                                       *)
GetNotesByDateRange(d, tid, start_date, end_date) ==
    LET g == GetOrCreateUser(d, tid)
    IN  [db  |-> g.db,
         ret |-> {r \in g.db.notes :
                    /\ r.user_id = g.user.id
                    /\ r.created_at >= StartOfDay(start_date)
                    /\ r.created_at <= EndOfDay(end_date)}]

FoodLogsBeforeEndDate(d, tid, start_date, end_date) ==
    LET g == GetOrCreateUser(d, tid)
    IN  [db  |-> g.db,
         ret |-> {r \in g.db.food_logs :
                    /\ r.user_id = g.user.id
                    /\ r.created_at >= StartOfDay(start_date)
                    /\ r.created_at < EndOfDay(end_date)}]

(* database.py:132-140.                                                     *)
GetFoodLogsByDateRange(d, tid, start_date, end_date) ==
    LET g == GetOrCreateUser(d, tid)
    IN  [db  |-> g.db,
         ret |-> {r \in g.db.food_logs :
                    /\ r.user_id = g.user.id
                    /\ r.created_at >= StartOfDay(start_date)
                    /\ r.created_at <= EndOfDay(end_date)}]

(* database.py:175-183.                                                     *)
GetWorkoutsByDateRange(d, tid, start_date, end_date) ==
    LET g == GetOrCreateUser(d, tid)
    IN  [db  |-> g.db,
         ret |-> {r \in g.db.workouts :
                    /\ r.user_id = g.user.id
                    /\ r.created_at >= StartOfDay(start_date)
                    /\ r.created_at <= EndOfDay(end_date)}]

(* round(x / n, 0) for integers x >= 0, n >= 1: Python rounds the double   *)
(* x / n to the nearest whole number, an exact half going to the even      *)
(* neighbour (a quotient ending in .5 is an exact double).                 *)
RoundQuotient(x, n) ==
    LET q == x \div n
        r == x % n
    IN  IF 2 * r < n THEN q
        ELSE IF 2 * r > n THEN q + 1
        ELSE IF q % 2 = 0 THEN q ELSE q + 1

Max(a, b) == IF a >= b THEN a ELSE b

AvgDailyKcalOverWindow(total, daysWithEntries, days) ==
    RoundQuotient(total, Max(days, 1))

(* database.py:282-284.  daysWithEntries is len(daily_nutrition).          *)
AvgDailyKcal(total, daysWithEntries, days) ==
    RoundQuotient(total, Max(daysWithEntries, 1))

(* database.py:220-286.  today is datetime.now().date().                   *)
GetWellnessContext(d, tid, days, today) ==
    LET start     == today - (days - 1)
        u         == GetUserProfile(d, tid)
        f         == GetFoodLogsByDateRange(u.db, tid, start, today)
        w         == GetWorkoutsByDateRange(f.db, tid, start, today)
        n         == GetNotesByDateRange(w.db, tid, start, today)
        keys      == {DayOf(r.created_at) : r \in f.ret}
        daily_nutrition ==
            [k \in keys |->
                LET logs == {r \in f.ret : DayOf(r.created_at) = k}
                IN  [calories |-> SumCalories(logs),
                     protein  |-> SumProtein(logs),
                     carbs    |-> SumCarbs(logs),
                     fat      |-> SumFat(logs)]]
    IN  [db  |-> n.db,
         ret |-> [period_days     |-> days,
                  start_date      |-> start,
                  end_date        |-> today,
                  user_profile    |->
                      [daily_calorie_target |-> u.user.daily_calorie_target],
                  daily_nutrition |-> daily_nutrition,
                  workouts        |-> w.ret,
                  notes           |-> n.ret,
                  totals |->
                      [food_entries   |-> Cardinality(f.ret),
                       workouts       |-> Cardinality(w.ret),
                       notes          |-> Cardinality(n.ret),
                       avg_daily_kcal |->
                           AvgDailyKcal(SumCalories(f.ret),
                                        Cardinality(keys), days)]]]

DeleteMatchAnyOwner(rows, id, uid) == {r \in rows : r.id = id}

(* .delete().eq("id", id).eq("user_id", uid): the rows the request removes. *)
DeleteMatch(rows, id, uid) == {r \in rows : r.id = id /\ r.user_id = uid}

(* database.py:290-296.                                                     *)
DeleteNote(d, tid, id) ==
    LET g    == GetOrCreateUser(d, tid)
        resp == DeleteMatch(g.db.notes, id, g.user.id)
    IN  [db  |-> [g.db EXCEPT !.notes = @ \ resp],
         ret |-> Cardinality(resp) > 0]

DeleteFoodLogAlwaysOk(d, tid, id) ==
    LET g    == GetOrCreateUser(d, tid)
        resp == DeleteMatch(g.db.food_logs, id, g.user.id)
    IN  [db  |-> [g.db EXCEPT !.food_logs = @ \ resp],
         ret |-> TRUE]

(* database.py:298-304.                                                     *)
DeleteFoodLog(d, tid, id) ==
    LET g    == GetOrCreateUser(d, tid)
        resp == DeleteMatch(g.db.food_logs, id, g.user.id)
    IN  [db  |-> [g.db EXCEPT !.food_logs = @ \ resp],
         ret |-> Cardinality(resp) > 0]

(* database.py:306-312.                                                     *)
DeleteWorkout(d, tid, id) ==
    LET g    == GetOrCreateUser(d, tid)
        resp == DeleteMatch(g.db.workouts, id, g.user.id)
    IN  [db  |-> [g.db EXCEPT !.workouts = @ \ resp],
         ret |-> Cardinality(resp) > 0]

---------------------------------------------------------------------------
(* The classification adapter: models.py:9-48, claude_client.py:24-49.     *)

(* The parsed JSON object.  keys is the set of keys the object holds; a    *)
(* field whose key is absent is never read.                                *)
Blank ==
    [keys |-> {}, type |-> "", confidence |-> 0, answer |-> "",
     content |-> "", summary |-> "", tags |-> <<>>,
     food_description |-> "", calories |-> 0, protein |-> 0, carbs |-> 0,
     fat |-> 0, activity_type |-> "", duration_mins |-> 0,
     distance_km |-> {}, notes |-> {}]

(* Hundredths h < 400 ending in 5 for which Python's round(h / 100, 1)     *)
(* goes down, the binary double lying below the decimal tie (or, for an    *)
(* exact double such as 0.25, the even neighbour lying below).             *)
TiesRoundedDown ==
    {15, 25, 35, 85, 95, 115, 125, 145, 165, 195, 205, 215, 225, 255, 265,
     305, 315, 325, 355, 365}

TruncateValues(h) == 10 * (h \div 10)

(* models.py:35-38: round(float(v), 1), in hundredths.  Ties are tabulated *)
(* below 4.00; the payloads of the model have no tie above.                *)
RoundValues(h) ==
    IF h % 10 < 5 \/ (h % 10 = 5 /\ h \in TiesRoundedDown)
    THEN 10 * (h \div 10)
    ELSE 10 * (h \div 10 + 1)

ConfidenceOk(data) ==
    "confidence" \in data.keys /\ data.confidence >= 0 /\ data.confidence <= 100

(* models.py:9-13.                                                          *)
QuestionDataValid(data) ==
    ConfidenceOk(data) /\ "answer" \in data.keys /\ data.answer # ""

(* models.py:16-22.                                                         *)
NoteDataValid(data) ==
    /\ ConfidenceOk(data)
    /\ "content" \in data.keys /\ data.content # ""
    /\ "summary" \in data.keys /\ data.summary # ""

(* models.py:25-33.                                                         *)
FoodDataValid(data) ==
    /\ ConfidenceOk(data)
    /\ "food_description" \in data.keys /\ data.food_description # ""
    /\ "calories" \in data.keys /\ data.calories >= 0
    /\ "protein" \in data.keys /\ data.protein >= 0
    /\ "carbs" \in data.keys /\ data.carbs >= 0
    /\ "fat" \in data.keys /\ data.fat >= 0

WorkoutDataValidZeroDuration(data) ==
    /\ ConfidenceOk(data)
    /\ "activity_type" \in data.keys /\ data.activity_type # ""
    /\ "duration_mins" \in data.keys /\ data.duration_mins >= 0
    /\ ("distance_km" \in data.keys => \A x \in data.distance_km : x >= 0)

(* models.py:41-48.                                                         *)
WorkoutDataValid(data) ==
    /\ ConfidenceOk(data)
    /\ "activity_type" \in data.keys /\ data.activity_type # ""
    /\ "duration_mins" \in data.keys /\ data.duration_mins >= 1
    /\ ("distance_km" \in data.keys => \A x \in data.distance_km : x >= 0)

(* The model object built from a valid payload: defaults filled in for     *)
(* absent optional keys, macros rounded by the field validator.            *)
QuestionData(data) == [data EXCEPT !.type = "question"]

NoteData(data) ==
    [data EXCEPT !.type = "note",
                 !.tags = IF "tags" \in data.keys THEN @ ELSE <<>>]

FoodData(data) ==
    [data EXCEPT !.type = "food",
                 !.protein = RoundValues(@),
                 !.carbs   = RoundValues(@),
                 !.fat     = RoundValues(@)]

WorkoutData(data) ==
    [data EXCEPT !.type = "workout",
                 !.distance_km = IF "distance_km" \in data.keys THEN @ ELSE {},
                 !.notes       = IF "notes" \in data.keys THEN @ ELSE {}]

Raised(err) == [err |-> err, type |-> "", data |-> Blank]
Returned(obj) == [err |-> "none", type |-> obj.type, data |-> obj]

ClassifyMessageNoValidation(raw) ==
    IF ~raw.api_ok THEN Raised("api")
    ELSE IF ~raw.json_ok THEN Raised("parse")
    ELSE IF ~raw.object THEN Raised("attribute")
    ELSE LET data == raw.data
             t    == IF "type" \in data.keys THEN data.type ELSE ""
         IN  CASE t = "question" -> Returned(QuestionData(data))
               [] t = "note"     -> Returned(NoteData(data))
               [] t = "food"     -> Returned(FoodData(data))
               [] t = "workout"  -> Returned(WorkoutData(data))
               [] OTHER          -> Raised("unknown")

(* claude_client.py:24-49.  raw is what the oracle call produced: the call *)
(* failed (api_ok = FALSE), or returned text that is not JSON, or JSON     *)
(* that json.loads turns into a list, a string, a number or None (object   *)
(* = FALSE: data.get at line 44 raises AttributeError), or a JSON object.  *)
(* err names the exception raised, "none" when a model object is returned. *)
ClassifyMessage(raw) ==
    IF ~raw.api_ok THEN Raised("api")
    ELSE IF ~raw.json_ok THEN Raised("parse")
    ELSE IF ~raw.object THEN Raised("attribute")
    ELSE LET data == raw.data
             t    == IF "type" \in data.keys THEN data.type ELSE ""
         IN  CASE t = "question" ->
                    IF QuestionDataValid(data)
                    THEN Returned(QuestionData(data)) ELSE Raised("schema")
               [] t = "note" ->
                    IF NoteDataValid(data)
                    THEN Returned(NoteData(data)) ELSE Raised("schema")
               [] t = "food" ->
                    IF FoodDataValid(data)
                    THEN Returned(FoodData(data)) ELSE Raised("schema")
               [] t = "workout" ->
                    IF WorkoutDataValid(data)
                    THEN Returned(WorkoutData(data)) ELSE Raised("schema")
               [] OTHER -> Raised("unknown")

(* Oracle responses the router is driven with.                             *)
Json(data) ==
    [api_ok |-> TRUE, json_ok |-> TRUE, object |-> TRUE, data |-> data]

QuestionPayload ==
    [Blank EXCEPT !.keys = {"type", "confidence", "answer"},
                  !.type = "question", !.confidence = 95,
                  !.answer = "A medium apple has about 95 calories."]

NotePayload ==
    [Blank EXCEPT !.keys = {"type", "confidence", "content", "summary", "tags"},
                  !.type = "note", !.confidence = 92,
                  !.content = "Feeling low energy today",
                  !.summary = "Low energy", !.tags = <<"energy", "work">>]

FoodPayload(kcal) ==
    [Blank EXCEPT !.keys = {"type", "confidence", "food_description",
                            "calories", "protein", "carbs", "fat"},
                  !.type = "food", !.confidence = 95,
                  !.food_description = "Oatmeal", !.calories = kcal,
                  !.protein = 1000, !.carbs = 6004, !.fat = 796]

FoodPayloadMacros(kcal, protein, carbs, fat) ==
    [FoodPayload(kcal) EXCEPT !.protein = protein, !.carbs = carbs,
                              !.fat = fat]

WorkoutPayload ==
    [Blank EXCEPT !.keys = {"type", "confidence", "activity_type",
                            "duration_mins", "distance_km"},
                  !.type = "workout", !.confidence = 95,
                  !.activity_type = "Running", !.duration_mins = 30,
                  !.distance_km = {50}]

ApiFailure ==
    [api_ok |-> FALSE, json_ok |-> FALSE, object |-> FALSE, data |-> Blank]
NotJson ==
    [api_ok |-> TRUE, json_ok |-> FALSE, object |-> FALSE, data |-> Blank]
NotObject ==
    [api_ok |-> TRUE, json_ok |-> TRUE, object |-> FALSE, data |-> Blank]
Without(data, key) == [data EXCEPT !.keys = @ \ {key}]
TypeAbsent   == Json(Without([QuestionPayload EXCEPT !.type = ""], "type"))
UnknownType  == Json([QuestionPayload EXCEPT !.type = "reminder"])
SchemaBroken == Json([FoodPayload(350) EXCEPT !.calories = -5])

FailingResponses ==
    {ApiFailure, NotJson, NotObject, TypeAbsent, UnknownType, SchemaBroken}

ValidResponses ==
    { Json(QuestionPayload), Json(NotePayload), Json(FoodPayload(350)),
      Json(WorkoutPayload) }

RouterResponses == FailingResponses \cup ValidResponses

(* Payloads of a recognized type: each variant as it should be, with an    *)
(* optional key left out, with a required key left out, and with one       *)
(* field at or beyond the edge of its constraint.                          *)
Variants(valid, required, edits) ==
    {valid} \cup {Without(valid, k) : k \in required} \cup edits

QuestionVariants ==
    Variants(QuestionPayload, {"confidence", "answer"},
             { [QuestionPayload EXCEPT !.answer = ""],
               [QuestionPayload EXCEPT !.confidence = 0],
               [QuestionPayload EXCEPT !.confidence = 100],
               [QuestionPayload EXCEPT !.confidence = 101],
               [QuestionPayload EXCEPT !.confidence = -1] })

NoteVariants ==
    Variants(NotePayload, {"confidence", "content", "summary"},
             { Without(NotePayload, "tags"),
               [NotePayload EXCEPT !.content = ""],
               [NotePayload EXCEPT !.summary = ""],
               [NotePayload EXCEPT !.confidence = 101] })

FoodVariants ==
    Variants(FoodPayload(350),
             {"confidence", "food_description", "calories", "protein",
              "carbs", "fat"},
             { [FoodPayload(350) EXCEPT !.food_description = ""],
               [FoodPayload(350) EXCEPT !.calories = 0],
               [FoodPayload(350) EXCEPT !.calories = -1],
               [FoodPayload(350) EXCEPT !.protein = -1],
               [FoodPayload(350) EXCEPT !.carbs = -1],
               [FoodPayload(350) EXCEPT !.fat = -1],
               [FoodPayload(350) EXCEPT !.fat = 0],
               [FoodPayload(350) EXCEPT !.confidence = -1] })

WorkoutVariants ==
    Variants(WorkoutPayload, {"confidence", "activity_type", "duration_mins"},
             { Without(WorkoutPayload, "distance_km"),
               Without(WorkoutPayload, "notes"),
               [WorkoutPayload EXCEPT !.activity_type = ""],
               [WorkoutPayload EXCEPT !.duration_mins = 1],
               [WorkoutPayload EXCEPT !.duration_mins = 0],
               [WorkoutPayload EXCEPT !.distance_km = {0}],
               [WorkoutPayload EXCEPT !.distance_km = {-1}],
               [WorkoutPayload EXCEPT !.confidence = 101] })

SchemaResponses ==
    {Json(data) : data \in QuestionVariants \cup NoteVariants \cup
                           FoodVariants \cup WorkoutVariants}

(* Meals with macros at and around rounding ties, and a workout.           *)
MacroInputs == {<<1000, 6004, 796>>, <<25, 35, 45>>, <<0, 15, 396>>}

FoodResponses ==
    {Json(FoodPayloadMacros(kcal, m[1], m[2], m[3])) :
        kcal \in {0, 350}, m \in MacroInputs}

EntryResponses == FoodResponses \cup {Json(WorkoutPayload)}

(* Notes with no tag, with tags outside every wellness set, with tags of   *)
(* the router's set and with tags that only the dashboard's set has.       *)
NoteTags ==
    {<<>>, <<"work">>, <<"energy", "work">>, <<"focus">>, <<"health">>,
     <<"work", "motivation">>}

NoteResponses == {Json([NotePayload EXCEPT !.tags = tags]) : tags \in NoteTags}

---------------------------------------------------------------------------
(* The router: webhook_bot.py:451-512 (_handle_text, run under the         *)
(* try/except of _dispatch, 529-563) and bot.py:262-329 (handle_message).  *)
(*                                                                         *)
(* One request is one action.  fail names the call that raises while the   *)
(* request is served:                                                      *)
(*   "none"    no call raises                                              *)
(*   "user"    the store raises inside get_or_create_user of the insert    *)
(*   "insert"  the store raises on the insert of the record itself         *)
(*   "read"    the store raises on the re-read after the insert            *)
(*   "send"    the transport raises on sending the reply                   *)
(* The except branch then sends the failure text; nothing is undone.       *)
(*                                                                         *)
(* A request reads the clock twice: the store stamps created_at at the     *)
(* insert (instant t), and the re-read of "today" calls datetime.now()     *)
(* once more (database.py:114, 165) at instant t2 >= t.                    *)

Msg ==
    [kind |-> "", entry |-> 0, total |-> 0, count |-> {}, target |-> {},
     remaining |-> {}, tip |-> FALSE]

FailureMsg == [Msg EXCEPT !.kind = "failure"]

Done(d, out, rowId) == [db |-> d, out |-> out, row |-> rowId]

(* webhook_bot.py:463.                                                      *)
WebhookWellnessTags ==
    {"mood", "energy", "sleep", "stress", "productivity", "focus"}

SeqToSet(q) == {q[i] : i \in 1..Len(q)}

RouteQuestionSaving(d, tid, c, fail, t) ==
    Done(InsertNote(d, tid, c.data.answer, c.data.answer, <<>>, t).db,
         <<[Msg EXCEPT !.kind = "answer"]>>, 0)

(* webhook_bot.py:455-457, bot.py:281-284.                                  *)
RouteQuestion(d, tid, c, fail, t) ==
    IF fail = "send" THEN Done(d, <<FailureMsg>>, 0)
    ELSE Done(d, <<[Msg EXCEPT !.kind = "answer"]>>, 0)

(* webhook_bot.py:459-468, bot.py:286-293.                                  *)
RouteNote(bot, d, tid, c, fail, t) ==
    LET ins == InsertNote(d, tid, c.data.content, c.data.summary, c.data.tags, t)
        matched == SeqToSet(c.data.tags) \cap WebhookWellnessTags
    IN  CASE fail = "user"   -> Done(d, <<FailureMsg>>, 0)
          [] fail = "insert" -> Done(GetOrCreateUser(d, tid).db, <<FailureMsg>>, 0)
          [] fail = "send"   -> Done(ins.db, <<FailureMsg>>, ins.row.id)
          [] OTHER ->
               Done(ins.db,
                    <<[Msg EXCEPT !.kind = "note_saved",
                                  !.tip = (bot = "webhook" /\ matched # {})]>>,
                    ins.row.id)

RouteFoodStale(bot, d, tid, c, fail, t, t2) ==
    LET nutrition == GetDailyNutrition(d, tid, DayOf(t2))
        ins == InsertFoodLog(nutrition.db, tid, c.data.food_description,
                             c.data.calories, c.data.protein, c.data.carbs,
                             c.data.fat, t)
    IN  Done(ins.db,
             <<[Msg EXCEPT !.kind = "food_logged",
                           !.entry = c.data.calories,
                           !.total = nutrition.ret.total_calories,
                           !.count = {nutrition.ret.entry_count}]>>,
             ins.row.id)

(* webhook_bot.py:470-497, bot.py:295-306.                                  *)
RouteFood(bot, d, tid, c, fail, t, t2) ==
    LET ins == InsertFoodLog(d, tid, c.data.food_description, c.data.calories,
                             c.data.protein, c.data.carbs, c.data.fat, t)
        nutrition == GetDailyNutrition(ins.db, tid, DayOf(t2))
        user == GetUserProfile(nutrition.db, tid)
        target == user.user.daily_calorie_target
        total == nutrition.ret.total_calories
    IN  CASE fail = "user"   -> Done(d, <<FailureMsg>>, 0)
          [] fail = "insert" -> Done(GetOrCreateUser(d, tid).db, <<FailureMsg>>, 0)
          [] fail = "read"   -> Done(ins.db, <<FailureMsg>>, ins.row.id)
          [] fail = "send"   -> Done(user.db, <<FailureMsg>>, ins.row.id)
          [] OTHER ->
               IF bot = "webhook"
               THEN Done(user.db,
                         <<[Msg EXCEPT !.kind = "food_logged",
                                       !.entry = c.data.calories,
                                       !.total = total,
                                       !.target = IF Truthy(target)
                                                  THEN target ELSE {},
                                       !.remaining =
                                           CaloriesRemaining(target, total)]>>,
                         ins.row.id)
               ELSE Done(nutrition.db,
                         <<[Msg EXCEPT !.kind = "food_logged",
                                       !.entry = c.data.calories,
                                       !.total = total,
                                       !.count = {nutrition.ret.entry_count}]>>,
                         ins.row.id)

(* webhook_bot.py:499-512, bot.py:308-323.                                  *)
RouteWorkout(bot, d, tid, c, fail, t, t2) ==
    LET ins == InsertWorkout(d, tid, c.data.activity_type, c.data.duration_mins,
                             c.data.distance_km, c.data.notes, t)
        workouts == GetDailyWorkouts(ins.db, tid, DayOf(t2))
    IN  CASE fail = "user"   -> Done(d, <<FailureMsg>>, 0)
          [] fail = "insert" -> Done(GetOrCreateUser(d, tid).db, <<FailureMsg>>, 0)
          [] fail = "read"   -> Done(ins.db, <<FailureMsg>>, ins.row.id)
          [] fail = "send"   -> Done(workouts.db, <<FailureMsg>>, ins.row.id)
          [] OTHER ->
               Done(workouts.db,
                    <<[Msg EXCEPT !.kind = "workout_logged",
                                  !.entry = c.data.duration_mins,
                                  !.total = SumDuration(workouts.ret)]>>,
                    ins.row.id)

(* The calls that can raise on the path a classification result takes.     *)
FailPoints(c) ==
    CASE c.err # "none"      -> {"none"}
      [] c.type = "question" -> {"none", "send"}
      [] c.type = "note"     -> {"none", "user", "insert", "send"}
      [] OTHER               -> {"none", "user", "insert", "read", "send"}

(* webhook_bot.py:451-512 under 529-563; bot.py:278-329.                    *)
Route(bot, d, tid, c, fail, t, t2) ==
    CASE c.err # "none"      -> Done(d, <<FailureMsg>>, 0)
      [] c.type = "question" -> RouteQuestion(d, tid, c, fail, t)
      [] c.type = "note"     -> RouteNote(bot, d, tid, c, fail, t)
      [] c.type = "food"     -> RouteFood(bot, d, tid, c, fail, t, t2)
      [] OTHER               -> RouteWorkout(bot, d, tid, c, fail, t, t2)

(* A request that re-reads the day can find the clock past midnight.       *)
Rereads(c, fail) ==
    /\ c.err = "none" /\ c.type \in {"food", "workout"}
    /\ fail \notin {"user", "insert"}

Bots == {"polling", "webhook"}

(* result = claude.classify_message(text), tabulated over the oracle's     *)
(* responses.                                                               *)
Classified ==
    [raw \in RouterResponses \cup EntryResponses \cup SchemaResponses
              \cup NoteResponses |->
        ClassifyMessage(raw)]

(* late: midnight falls between the insert and the re-read.                *)
HandleText(bot, tid, raw, fail, late) ==
    LET c  == Classified[raw]
        t2 == IF late THEN StartOfDay(DayOf(now) + 1) ELSE now
    IN  /\ fail \in FailPoints(c)
        /\ late => (Rereads(c, fail) /\ DayOf(now) < MaxDay)
        /\ (c.err = "none" /\ c.type # "question") => RowsInserted(db) < MaxRecords
        /\ \E r \in {Route(bot, db, tid, c, fail, now, t2)} :
              /\ db' = r.db
              /\ outbox' = r.out
              /\ now' = t2
              /\ last' = [op |-> "text", tid |-> tid, err |-> c.err,
                          type |-> c.type, fail |-> fail,
                          fresh |-> (UsersByTelegramId(db, tid) = {}),
                          row |-> r.row, day |-> DayOf(t2), raw |-> raw]
              /\ UNCHANGED <<pc, session_state>>

---------------------------------------------------------------------------
(* Calls made on the store by the dashboard and the commands.              *)

RecordIds == 1..MaxRecords

(* Bookkeeping for the properties: this delete directly follows a          *)
(* successful delete of the same id by the same owner.                     *)
Repeats(op, tid, id) ==
    last.op = op /\ last.tid = tid /\ last.id = id /\ last.ret

(* app.py:67-84 calling database.py:290-296.                                *)
DeleteNoteCall(tid, id) ==
    \E r \in {DeleteNote(db, tid, id)} :
       /\ db' = r.db
       /\ last' = [op |-> "delete_note", tid |-> tid, id |-> id, ret |-> r.ret,
                   again |-> Repeats("delete_note", tid, id)]
       /\ UNCHANGED <<now, outbox, pc, session_state>>

(* app.py:67-84 calling database.py:298-304.                                *)
DeleteFoodLogCall(tid, id) ==
    \E r \in {DeleteFoodLog(db, tid, id)} :
       /\ db' = r.db
       /\ last' = [op |-> "delete_food_log", tid |-> tid, id |-> id, ret |-> r.ret,
                   again |-> Repeats("delete_food_log", tid, id)]
       /\ UNCHANGED <<now, outbox, pc, session_state>>

(* app.py:67-84 calling database.py:306-312.                                *)
DeleteWorkoutCall(tid, id) ==
    \E r \in {DeleteWorkout(db, tid, id)} :
       /\ db' = r.db
       /\ last' = [op |-> "delete_workout", tid |-> tid, id |-> id, ret |-> r.ret,
                   again |-> Repeats("delete_workout", tid, id)]
       /\ UNCHANGED <<now, outbox, pc, session_state>>

(* database.py:187-216, for any target date (the /summary commands at     *)
(* webhook_bot.py:411 and bot.py:176 pass none, which is today).          *)
GetDailySummaryCall(tid, day) ==
    \E r \in {GetDailySummary(db, tid, day)} :
       /\ db' = r.db
       /\ last' = [op |-> "get_daily_summary", tid |-> tid, day |-> day,
                   ret |-> r.ret]
       /\ UNCHANGED <<now, outbox, pc, session_state>>

(* app.py:424-468: the form reads the profile (creating it), and Save      *)
(* writes the calorie target, None when the number entered is 0.           *)
FormTargets == {0, 500}

ProfileForm(tid, cal_target) ==
    /\ db' = UpdateUserProfile(GetUserProfile(db, tid).db, tid,
                               IF cal_target > 0 THEN {cal_target} ELSE {}).db
    /\ last' = [op |-> "profile_form", tid |-> tid]
    /\ UNCHANGED <<now, outbox, pc, session_state>>

(* app.py:479-494: the meal form; description and calories are required.  *)
FoodEntryForm(tid, desc, calories, protein, carbs, fat) ==
    /\ RowsInserted(db) < MaxRecords
    /\ IF desc = "" \/ calories = 0
       THEN db' = db
       ELSE db' = InsertFoodLog(db, tid, desc, calories, protein, carbs, fat,
                                now).db
    /\ last' = [op |-> "food_form", tid |-> tid]
    /\ UNCHANGED <<now, outbox, pc, session_state>>

(* app.py:514-535: the workout form.                                        *)
WorkoutEntryForm(tid, act, duration, distance) ==
    /\ RowsInserted(db) < MaxRecords
    /\ IF act = ""
       THEN db' = db
       ELSE db' = InsertWorkout(db, tid, act, duration,
                                IF distance > 0 THEN {distance} ELSE {}, {},
                                now).db
    /\ last' = [op |-> "workout_form", tid |-> tid]
    /\ UNCHANGED <<now, outbox, pc, session_state>>

(* app.py:554-567: the note form.                                           *)
NoteEntryForm(tid, content, summary, tags) ==
    /\ RowsInserted(db) < MaxRecords
    /\ IF content = "" \/ summary = ""
       THEN db' = db
       ELSE db' = InsertNote(db, tid, content, summary, tags, now).db
    /\ last' = [op |-> "note_form", tid |-> tid]
    /\ UNCHANGED <<now, outbox, pc, session_state>>

(* app.py:376 calling database.py:91-99.                                    *)
GetNotesByDateRangeCall(tid, start, end) ==
    \E r \in {GetNotesByDateRange(db, tid, start, end)} :
       /\ db' = r.db
       /\ last' = [op |-> "get_notes_by_date_range", tid |-> tid,
                   start |-> start, end |-> end, ret |-> r.ret]
       /\ UNCHANGED <<now, outbox, pc, session_state>>

(* app.py:108 calling database.py:132-140.                                  *)
GetFoodLogsByDateRangeCall(tid, start, end) ==
    \E r \in {GetFoodLogsByDateRange(db, tid, start, end)} :
       /\ db' = r.db
       /\ last' = [op |-> "get_food_logs_by_date_range", tid |-> tid,
                   start |-> start, end |-> end, ret |-> r.ret]
       /\ UNCHANGED <<now, outbox, pc, session_state>>

(* app.py:109 calling database.py:175-183.                                  *)
GetWorkoutsByDateRangeCall(tid, start, end) ==
    \E r \in {GetWorkoutsByDateRange(db, tid, start, end)} :
       /\ db' = r.db
       /\ last' = [op |-> "get_workouts_by_date_range", tid |-> tid,
                   start |-> start, end |-> end, ret |-> r.ret]
       /\ UNCHANGED <<now, outbox, pc, session_state>>

(* database.py:112-130 for a given date.                                    *)
GetDailyNutritionCall(tid, day) ==
    \E r \in {GetDailyNutrition(db, tid, day)} :
       /\ db' = r.db
       /\ last' = [op |-> "get_daily_nutrition", tid |-> tid,
                   start |-> day, end |-> day, ret |-> r.ret.entries]
       /\ UNCHANGED <<now, outbox, pc, session_state>>

(* database.py:163-173 for a given date.                                    *)
GetDailyWorkoutsCall(tid, day) ==
    \E r \in {GetDailyWorkouts(db, tid, day)} :
       /\ db' = r.db
       /\ last' = [op |-> "get_daily_workouts", tid |-> tid,
                   start |-> day, end |-> day, ret |-> r.ret]
       /\ UNCHANGED <<now, outbox, pc, session_state>>

(* database.py:194-200, 215: the note count of the daily summary.           *)
SummaryNotesCountCall(tid, day) ==
    \E r \in {GetDailySummary(db, tid, day)} :
       /\ db' = r.db
       /\ last' = [op |-> "notes_count", tid |-> tid,
                   start |-> day, end |-> day, ret |-> r.ret.notes_count]
       /\ UNCHANGED <<now, outbox, pc, session_state>>

(* The clock moves on by one instant.                                      *)
LastInstant == (MaxDay + 1) * TicksPerDay - 1
Instants == 0..LastInstant

Tick ==
    /\ now < LastInstant
    /\ now' = now + 1
    /\ UNCHANGED <<db, outbox, last, pc, session_state>>

(* webhook_bot.py:355-358 calling database.py:220-286 (the command asks    *)
(* for 7 days; the method takes any window).                               *)
GetWellnessContextCall(tid, days) ==
    \E r \in {GetWellnessContext(db, tid, days, DayOf(now))} :
       /\ db' = r.db
       /\ last' = [op |-> "get_wellness_context", tid |-> tid,
                   days |-> days, today |-> DayOf(now), ret |-> r.ret]
       /\ UNCHANGED <<now, outbox, pc, session_state>>

(* A day passes.                                                            *)
DayPasses ==
    /\ DayOf(now) < MaxDay
    /\ now' = now + TicksPerDay
    /\ UNCHANGED <<db, outbox, last, pc, session_state>>

Idle == [at |-> "idle", tid |-> 0]

Init ==
    /\ db = EmptyDb
    /\ now = 0
    /\ outbox = <<>>
    /\ last = [op |-> "none"]
    /\ pc = [w \in Workers |-> Idle]
    /\ session_state = {}

(* The chat entry points: free text through the router, the oracle         *)
(* answering with a well-formed payload, the store and the transport       *)
(* failing at any point.                                                   *)
Next ==
    \/ \E bot \in Bots, tid \in Owners, raw \in ValidResponses :
          \E fail \in FailPoints(Classified[raw]) :
             \E late \in {FALSE, Rereads(Classified[raw], fail)} :
                HandleText(bot, tid, raw, fail, late)
    \/ DayPasses

Spec == Init /\ [][Next]_vars

(* The chat entry points with the oracle answering anything: a failed      *)
(* call, text that is not JSON, an unknown type, a payload breaking a      *)
(* field constraint, or a well-formed payload.                             *)
NextClassify ==
    \E bot \in Bots, tid \in Owners, raw \in RouterResponses :
       HandleText(bot, tid, raw, "none", FALSE)

SpecClassify == Init /\ [][NextClassify]_vars

(* The router driven with notes of various tags.                           *)
NextTags ==
    \E bot \in Bots, tid \in Owners, raw \in NoteResponses :
       HandleText(bot, tid, raw, "none", FALSE)

SpecTags == Init /\ [][NextTags]_vars

(* The router driven with payloads of a recognized type, sound and not,   *)
(* all sent by one owner: classification does not look at the sender.      *)
NextSchema ==
    \E bot \in Bots, raw \in SchemaResponses :
       HandleText(bot, 1, raw, "none", FALSE)

SpecSchema == Init /\ [][NextSchema]_vars

(* The dashboard's data-entry page: manual entry and deletion.             *)
FormCalories == {300, 450}

NextStore ==
    \/ \E tid \in Owners, kcal \in FormCalories :
          FoodEntryForm(tid, "Oatmeal", kcal, 100, 600, 80)
    \/ \E tid \in Owners : WorkoutEntryForm(tid, "Running", 30, 50)
    \/ \E tid \in Owners : NoteEntryForm(tid, "Slept badly", "Sleep", <<"sleep">>)
    \/ \E tid \in Owners, id \in RecordIds : DeleteNoteCall(tid, id)
    \/ \E tid \in Owners, id \in RecordIds : DeleteFoodLogCall(tid, id)
    \/ \E tid \in Owners, id \in RecordIds : DeleteWorkoutCall(tid, id)

SpecStore == Init /\ [][NextStore]_vars

(* Manual entry over several days, the profile form and the daily summary. *)
NextSummary ==
    \/ \E tid \in Owners, kcal \in FormCalories :
          FoodEntryForm(tid, "Oatmeal", kcal, 100, 600, 80)
    \/ \E tid \in Owners : WorkoutEntryForm(tid, "Running", 30, 50)
    \/ \E tid \in Owners : NoteEntryForm(tid, "Slept badly", "Sleep", <<"sleep">>)
    \/ \E tid \in Owners, day \in Days : GetDailySummaryCall(tid, day)
    \/ \E tid \in Owners, cal \in FormTargets : ProfileForm(tid, cal)
    \/ DayPasses

SpecSummary == Init /\ [][NextSummary]_vars

(* Records entering the store: through the router and through the         *)
(* dashboard's forms, with whatever the forms' widgets let through.        *)
FormDescriptions == {"", "Oatmeal"}
FormMacros == {0, 1234}
FormActivities == {"", "Running"}
FormDurations == {1, 30}
FormDistances == {0, 50}

NextEntry ==
    \/ \E bot \in Bots, tid \in Owners, raw \in EntryResponses :
          HandleText(bot, tid, raw, "none", FALSE)
    \/ \E tid \in Owners, desc \in FormDescriptions, kcal \in {0, 300},
          protein \in FormMacros :
          FoodEntryForm(tid, desc, kcal, protein, 600, 80)
    \/ \E tid \in Owners, act \in FormActivities, duration \in FormDurations,
          distance \in FormDistances :
          WorkoutEntryForm(tid, act, duration, distance)

SpecEntry == Init /\ [][NextEntry]_vars

(* ----- Keyword search -------------------------------------------------- *)
(* The texts of the search model and their characters.                     *)
SearchTexts == {"50%", "50k", "Ab"}

Keywords == {"50%", "ab", "_"}

Spell(text) ==
    CASE text = "50%" -> <<"5", "0", "%">>
      [] text = "50k" -> <<"5", "0", "k">>
      [] text = "Ab"  -> <<"A", "b">>
      [] text = "ab"  -> <<"a", "b">>
      [] OTHER        -> <<"_">>

Lower(ch) == CASE ch = "A" -> "a" [] ch = "B" -> "b" [] OTHER -> ch

(* SQL ILIKE as PostgREST applies it for .ilike(column, pattern): % stands *)
(* for any run of characters, _ for any one character, every other         *)
(* character for itself without regard to case.                            *)
RECURSIVE ILike(_, _)
ILike(text, pattern) ==
    IF pattern = <<>> THEN text = <<>>
    ELSE IF Head(pattern) = "%"
    THEN \/ ILike(text, Tail(pattern))
         \/ (text # <<>> /\ ILike(Tail(text), pattern))
    ELSE IF Head(pattern) = "_"
    THEN text # <<>> /\ ILike(Tail(text), Tail(pattern))
    ELSE /\ text # <<>>
         /\ Lower(Head(text)) = Lower(Head(pattern))
         /\ ILike(Tail(text), Tail(pattern))

RECURSIVE Orderings(_)
Orderings(rows) ==
    IF rows = {} THEN {<<>>}
    ELSE UNION {{<<r>> \o q : q \in Orderings(rows \ {r})} : r \in rows}

(* .order("created_at", desc=True).limit(limit): every answer the store    *)
(* can give; rows of one instant come in any order.                        *)
NewestFirst(rows, limit) ==
    {SubSeq(q, 1, IF Len(q) < limit THEN Len(q) ELSE limit) :
        q \in {o \in Orderings(rows) :
                  \A i \in 1..Len(o), j \in 1..Len(o) :
                     i < j => o[i].created_at >= o[j].created_at}}

(* database.py:83-87: the loop over content_hits + summary_hits.           *)
RECURSIVE Deduplicate(_, _, _)
Deduplicate(notes, seen, results) ==
    IF notes = <<>> THEN results
    ELSE IF Head(notes).id \in seen
         THEN Deduplicate(Tail(notes), seen, results)
         ELSE Deduplicate(Tail(notes), seen \cup {Head(notes).id},
                          Append(results, Head(notes)))

(* database.py:88: list.sort(key=created_at, reverse=True), which is       *)
(* stable.                                                                 *)
RECURSIVE InsertByCreatedAt(_, _)
InsertByCreatedAt(sorted, note) ==
    IF sorted = <<>> THEN <<note>>
    ELSE IF Head(sorted).created_at >= note.created_at
         THEN <<Head(sorted)>> \o InsertByCreatedAt(Tail(sorted), note)
         ELSE <<note>> \o sorted

RECURSIVE SortByCreatedAtDesc(_)
SortByCreatedAtDesc(notes) ==
    IF notes = <<>> THEN <<>>
    ELSE InsertByCreatedAt(
            SortByCreatedAtDesc(SubSeq(notes, 1, Len(notes) - 1)),
            notes[Len(notes)])

(* database.py:71-89.  rets is the set of lists the call can return.       *)
SearchNotes(d, tid, query, limit) ==
    LET g == GetOrCreateUser(d, tid)
        pattern == <<"%">> \o Spell(query) \o <<"%">>
        mine == {n \in g.db.notes : n.user_id = g.user.id}
        content_hits ==
            NewestFirst({n \in mine : ILike(Spell(n.content), pattern)}, limit)
        summary_hits ==
            NewestFirst({n \in mine : ILike(Spell(n.summary), pattern)}, limit)
    IN  [db   |-> g.db,
         rets |-> {SubSeq(r, 1, IF Len(r) < limit THEN Len(r) ELSE limit) :
                     r \in {SortByCreatedAtDesc(Deduplicate(c \o m, {}, <<>>)) :
                               c \in content_hits, m \in summary_hits}}]

(* webhook_bot.py:391, bot.py:147: /notes <keyword>.                       *)
SearchNotesCall(tid, query, limit) ==
    /\ \E r \in {SearchNotes(db, tid, query, limit)} :
          /\ db' = r.db
          /\ \E ret \in r.rets :
                last' = [op |-> "search_notes", tid |-> tid, query |-> query,
                         limit |-> limit, ret |-> ret]
    /\ UNCHANGED <<now, outbox, pc, session_state>>

(* ----- Free-text generation -------------------------------------------- *)
(* oracle is what client.messages.create does when called: it raises       *)
(* ("error"), returns a response without a content block ("no_content":   *)
(* content[0] raises IndexError), returns only white space ("blank":       *)
(* strip() leaves the empty string) or returns text ("text").              *)
OracleOutcomes == {"error", "no_content", "blank", "text"}

NoText ==
    [kind |-> "empty", date |-> 0, total_calories |-> 0,
     calorie_target |-> {}, workout_count |-> 0]

OracleText == [NoText EXCEPT !.kind = "oracle"]

TextDone(err, text) == [err |-> err, text |-> text]

(* claude_client.py:53-64 and 68-80: nothing is caught.                    *)
GenerateRecommendation(oracle) ==
    CASE oracle = "error"      -> TextDone("oracle", NoText)
      [] oracle = "no_content" -> TextDone("IndexError", NoText)
      [] oracle = "blank"      -> TextDone("none", NoText)
      [] OTHER                 -> TextDone("none", OracleText)

GenerateInsights(oracle) ==
    CASE oracle = "error"      -> TextDone("oracle", NoText)
      [] oracle = "no_content" -> TextDone("IndexError", NoText)
      [] oracle = "blank"      -> TextDone("none", NoText)
      [] OTHER                 -> TextDone("none", OracleText)

(* prompts.py:241-250: the fields SUMMARY_PROMPT_TEMPLATE.format needs.    *)
TemplateKeys ==
    {"date", "total_calories", "calorie_target", "protein", "carbs", "fat",
     "food_count", "workout_count", "workout_mins", "notes_count"}

(* claude_client.py:93-97: the fields the canned sentence reads.           *)
FallbackKeys == {"date", "total_calories", "calorie_target", "workout_count"}

(* models.py:55-67: the fields of a DailySummary.                          *)
DailySummaryKeys ==
    {"date", "total_calories", "total_protein", "total_carbs", "total_fat",
     "calories_target", "calories_remaining", "food_entries", "workout_count",
     "workout_minutes", "notes_count"}

FallbackSentence(summary_data) ==
    [NoText EXCEPT !.kind = "template", !.date = summary_data.date,
                   !.total_calories = summary_data.total_calories,
                   !.calorie_target = summary_data.calorie_target,
                   !.workout_count = summary_data.workout_count]

(* claude_client.py:84-97.  summary_data.keys are the keys of the          *)
(* dictionary; a missing key raises KeyError, inside the try (building     *)
(* the prompt) or inside the except branch (building the sentence).        *)
GenerateSummaryText(summary_data, oracle) ==
    LET caught == \/ ~(TemplateKeys \subseteq summary_data.keys)
                  \/ oracle \in {"error", "no_content"}
    IN  IF ~caught
        THEN TextDone("none", IF oracle = "blank" THEN NoText ELSE OracleText)
        ELSE IF FallbackKeys \subseteq summary_data.keys
             THEN TextDone("none", FallbackSentence(summary_data))
             ELSE TextDone("KeyError", NoText)

SummaryKeySets ==
    {TemplateKeys, DailySummaryKeys, FallbackKeys,
     TemplateKeys \ {"protein"}, TemplateKeys \ {"calorie_target"}}

SummaryInputs ==
    [keys : SummaryKeySets, date : Days, total_calories : {0, 350},
     calorie_target : {{}, {2000}}, workout_count : {0, 1}]

GenerateSummaryTextCall(summary_data, oracle) ==
    /\ last' = [op |-> "generate_summary_text", data |-> summary_data,
                oracle |-> oracle,
                ret |-> GenerateSummaryText(summary_data, oracle)]
    /\ UNCHANGED <<db, now, outbox, pc, session_state>>

GenerateRecommendationCall(oracle) ==
    /\ last' = [op |-> "generate_recommendation", oracle |-> oracle,
                ret |-> GenerateRecommendation(oracle)]
    /\ UNCHANGED <<db, now, outbox, pc, session_state>>

GenerateInsightsCall(oracle) ==
    /\ last' = [op |-> "generate_insights", oracle |-> oracle,
                ret |-> GenerateInsights(oracle)]
    /\ UNCHANGED <<db, now, outbox, pc, session_state>>

NextText ==
    \/ \E summary_data \in SummaryInputs, oracle \in OracleOutcomes :
          GenerateSummaryTextCall(summary_data, oracle)
    \/ \E oracle \in OracleOutcomes : GenerateRecommendationCall(oracle)
    \/ \E oracle \in OracleOutcomes : GenerateInsightsCall(oracle)

SpecText == Init /\ [][NextText]_vars

(* ----- Profile commands ------------------------------------------------ *)
(* Weights are in tenths of a kilogram, calories and macro grams whole.    *)
(* args is the argument list after the command: <<>> when none was given.  *)
(* The reply is Msg with kind "usage", "invalid" or "updated".             *)
Reply(kind, value) == <<[Msg EXCEPT !.kind = kind, !.entry = value]>>

CommandDone(op, tid, args, ok) ==
    [op |-> op, tid |-> tid, args |-> args, ok |-> ok,
     fresh |-> (UsersByTelegramId(db, tid) = {})]

(* webhook_bot.py:134-146, bot.py:218-227: get_user_profile.               *)
ProfileCommand(bot, tid) ==
    /\ db' = GetUserProfile(db, tid).db
    /\ outbox' = Reply("profile", 0)
    /\ last' = CommandDone("profile", tid, <<>>, FALSE)
    /\ UNCHANGED <<now, pc, session_state>>

(* webhook_bot.py:149-165.                                                  *)
SetWeightCommand(tid, args) ==
    /\ IF args = <<>>
       THEN /\ db' = db
            /\ outbox' = Reply("usage", 0)
            /\ last' = CommandDone("setweight", tid, args, FALSE)
       ELSE LET w == args[1]
            IN  IF ~(200 < w /\ w < 3000)
                THEN /\ db' = db
                     /\ outbox' = Reply("invalid", 0)
                     /\ last' = CommandDone("setweight", tid, args, FALSE)
                ELSE /\ db' = GetUserProfile(
                                 UpdateUserColumns(db, tid,
                                     [current_weight |-> {w}]).db, tid).db
                     /\ outbox' = Reply("updated", w)
                     /\ last' = CommandDone("setweight", tid, args, TRUE)
    /\ UNCHANGED <<now, pc, session_state>>

(* webhook_bot.py:168-179, bot.py:230-242 (which wants exactly one         *)
(* argument).                                                              *)
SetGoalCommand(bot, tid, args) ==
    /\ IF args = <<>>
       THEN /\ db' = db
            /\ outbox' = Reply("usage", 0)
            /\ last' = CommandDone("setgoal", tid, args, FALSE)
       ELSE LET w == args[1]
            IN  IF ~(200 < w /\ w < 3000)
                THEN /\ db' = db
                     /\ outbox' = Reply("invalid", 0)
                     /\ last' = CommandDone("setgoal", tid, args, FALSE)
                ELSE /\ db' = UpdateUserColumns(db, tid,
                                                [goal_weight |-> {w}]).db
                     /\ outbox' = Reply("updated", w)
                     /\ last' = CommandDone("setgoal", tid, args, TRUE)
    /\ UNCHANGED <<now, pc, session_state>>

(* webhook_bot.py:182-193, bot.py:245-257.                                  *)
SetTargetCommand(bot, tid, args) ==
    /\ IF args = <<>>
       THEN /\ db' = db
            /\ outbox' = Reply("usage", 0)
            /\ last' = CommandDone("settarget", tid, args, FALSE)
       ELSE LET cal == args[1]
            IN  IF ~(500 <= cal /\ cal <= 5000)
                THEN /\ db' = db
                     /\ outbox' = Reply("invalid", 0)
                     /\ last' = CommandDone("settarget", tid, args, FALSE)
                ELSE /\ db' = UpdateUserColumns(db, tid,
                                       [daily_calorie_target |-> {cal}]).db
                     /\ outbox' = Reply("updated", cal)
                     /\ last' = CommandDone("settarget", tid, args, TRUE)
    /\ UNCHANGED <<now, pc, session_state>>

(* webhook_bot.py:196-230.                                                  *)
SetMacrosCommand(tid, args) ==
    /\ IF Len(args) # 3
       THEN /\ db' = db
            /\ outbox' = Reply("usage", 0)
            /\ last' = CommandDone("setmacros", tid, args, FALSE)
       ELSE IF \E i \in 1..3 : args[i] < 0 \/ args[i] > 1000
            THEN /\ db' = db
                 /\ outbox' = Reply("invalid", 0)
                 /\ last' = CommandDone("setmacros", tid, args, FALSE)
            ELSE /\ db' = UpdateUserColumns(db, tid,
                               [protein_target |-> {args[1]},
                                carbs_target   |-> {args[2]},
                                fat_target     |-> {args[3]}]).db
                 /\ outbox' = Reply("updated",
                                    args[1] * 4 + args[2] * 4 + args[3] * 9)
                 /\ last' = CommandDone("setmacros", tid, args, TRUE)
    /\ UNCHANGED <<now, pc, session_state>>

WeightArgs == {<<>>, <<199>>, <<200>>, <<201>>, <<3000>>, <<3001>>}

TargetArgs == {<<>>, <<499>>, <<500>>, <<5000>>, <<5001>>}

MacroArgs == {<<>>, <<150, 200, 65>>, <<1001, 200, 65>>, <<150, 200, -1>>}

NextProfile ==
    \/ \E bot \in Bots, tid \in Owners : ProfileCommand(bot, tid)
    \/ \E tid \in Owners, args \in WeightArgs : SetWeightCommand(tid, args)
    \/ \E bot \in Bots, tid \in Owners, args \in WeightArgs :
          SetGoalCommand(bot, tid, args)
    \/ \E bot \in Bots, tid \in Owners, args \in TargetArgs :
          SetTargetCommand(bot, tid, args)
    \/ \E tid \in Owners, args \in MacroArgs : SetMacrosCommand(tid, args)

SpecProfile == Init /\ [][NextProfile]_vars

(* ----- Splitting a reply into messages -------------------------------- *)
(* A text is the sequence of its lines as str.splitlines(keepends=True)    *)
(* yields them: a line is a run of characters other than the newline,      *)
(* followed by its newline, which only the last line may lack.             *)
TG_MAX == 4096

MaxLines == 3

LineLen(line) == line.chars + (IF line.newline THEN 1 ELSE 0)

RECURSIVE TextLen(_)
TextLen(lines) ==
    IF lines = <<>> THEN 0 ELSE LineLen(Head(lines)) + TextLen(Tail(lines))

ClosedLines == {[chars |-> n, newline |-> TRUE] : n \in {0, 2047, 4095, 4096}}

OpenLines == {[chars |-> n, newline |-> FALSE] : n \in {2048, 4096, 4097}}

Texts ==
    UNION {{full \o tail :
              full \in [1..k -> ClosedLines],
              tail \in {<<>>} \cup
                        (IF k < MaxLines THEN {<<l>> : l \in OpenLines}
                                         ELSE {})} :
           k \in 0..MaxLines}

(* bot.py:46-54, webhook_bot.py:63-71: the loop over the lines and the     *)
(* final flush; parts is a sequence of buffers, a buffer a sequence of     *)
(* lines.                                                                  *)
RECURSIVE Pack(_, _, _)
Pack(lines, parts, buf) ==
    IF lines = <<>>
    THEN IF buf # <<>> THEN Append(parts, buf) ELSE parts
    ELSE LET line == Head(lines)
         IN  IF TextLen(buf) + LineLen(line) > TG_MAX
             THEN Pack(Tail(lines), Append(parts, buf), <<line>>)
             ELSE Pack(Tail(lines), parts, Append(buf, line))

(* bot.py:44-54.                                                           *)
Chunks(text) ==
    LET parts == Pack(text, <<>>, <<>>)
    IN  IF parts = <<>> THEN << <<>> >> ELSE parts

(* webhook_bot.py:62-71.                                                   *)
Split(text) ==
    LET parts == Pack(text, <<>>, <<>>)
    IN  IF parts = <<>> THEN << <<>> >> ELSE parts

(* bot.py:57-62, webhook_bot.py:74-77: the reply is split before sending.  *)
SendCall(bot, text) ==
    /\ last' = [op |-> "send", bot |-> bot, text |-> text,
                ret |-> IF bot = "polling" THEN Chunks(text) ELSE Split(text)]
    /\ UNCHANGED <<db, now, outbox, pc, session_state>>

NextSend == \E bot \in Bots, text \in Texts : SendCall(bot, text)

SpecSend == Init /\ [][NextSend]_vars

(* Meals entered over several days and the wellness context.               *)
WellnessCalories == {300, 301}
WindowDays == 1..(MaxDay + 1)

NextWellness ==
    \/ \E tid \in Owners, kcal \in WellnessCalories :
          FoodEntryForm(tid, "Oatmeal", kcal, 100, 600, 80)
    \/ \E tid \in Owners, days \in WindowDays : GetWellnessContextCall(tid, days)
    \/ DayPasses

SpecWellness == Init /\ [][NextWellness]_vars

(* Manual entry at any instant and the time-bounded queries.               *)
NextRange ==
    \/ \E tid \in Owners : FoodEntryForm(tid, "Oatmeal", 300, 100, 600, 80)
    \/ \E tid \in Owners : WorkoutEntryForm(tid, "Running", 30, 50)
    \/ \E tid \in Owners : NoteEntryForm(tid, "Slept badly", "Sleep", <<"sleep">>)
    \/ \E tid \in Owners, start \in Days, end \in Days :
          GetNotesByDateRangeCall(tid, start, end)
    \/ \E tid \in Owners, start \in Days, end \in Days :
          GetFoodLogsByDateRangeCall(tid, start, end)
    \/ \E tid \in Owners, start \in Days, end \in Days :
          GetWorkoutsByDateRangeCall(tid, start, end)
    \/ \E tid \in Owners, day \in Days : GetDailyNutritionCall(tid, day)
    \/ \E tid \in Owners, day \in Days : GetDailyWorkoutsCall(tid, day)
    \/ \E tid \in Owners, day \in Days : SummaryNotesCountCall(tid, day)
    \/ Tick

SpecRange == Init /\ [][NextRange]_vars

---------------------------------------------------------------------------
(* Requests served concurrently: each store round trip is one step.  The   *)
(* /start command (webhook_bot.py:82-84, bot.py:66-68) calls               *)
(* get_or_create_user, which is a SELECT (database.py:27-32) followed,     *)
(* when it returned no row, by an INSERT (database.py:35-36).              *)

StartReceived(w, tid) ==
    /\ pc[w].at = "idle"
    /\ pc' = [pc EXCEPT ![w] = [at |-> "select", tid |-> tid]]
    /\ UNCHANGED <<db, now, outbox, last, session_state>>

(* database.py:27-34.                                                       *)
UserSelect(w) ==
    /\ pc[w].at = "select"
    /\ pc' = [pc EXCEPT ![w].at =
                 IF UsersByTelegramId(db, pc[w].tid) # {}
                 THEN "reply" ELSE "insert"]
    /\ UNCHANGED <<db, now, outbox, last, session_state>>

(* database.py:35-37.                                                       *)
UserInsert(w) ==
    /\ pc[w].at = "insert"
    /\ db' = [db EXCEPT !.users = @ \cup {NewUser(db, pc[w].tid)},
                        !.next_user = @ + 1]
    /\ pc' = [pc EXCEPT ![w].at = "reply"]
    /\ UNCHANGED <<now, outbox, last, session_state>>

(* webhook_bot.py:84-103.                                                   *)
StartReply(w) ==
    /\ pc[w].at = "reply"
    /\ outbox' = <<[Msg EXCEPT !.kind = "welcome"]>>
    /\ last' = [op |-> "start", tid |-> pc[w].tid]
    /\ pc' = [pc EXCEPT ![w] = Idle]
    /\ UNCHANGED <<db, now, session_state>>

NextConc ==
    \/ \E w \in Workers, tid \in Owners : StartReceived(w, tid)
    \/ \E w \in Workers : UserSelect(w)
    \/ \E w \in Workers : UserInsert(w)
    \/ \E w \in Workers : StartReply(w)

SpecConc == Init /\ [][NextConc]_vars

---------------------------------------------------------------------------
(* The /notes command: bot.py:112-167, webhook_bot.py:368-406.             *)

(* database.py:62-69.  rets is the set of lists the call can return.       *)
GetRecentNotes(d, tid, limit) ==
    LET g == GetOrCreateUser(d, tid)
    IN  [db   |-> g.db,
         rets |-> NewestFirst({n \in g.db.notes : n.user_id = g.user.id}, limit)]

(* bot.py:133-145, webhook_bot.py:378-389: the calendar days asked for.    *)
NotesWindow(kw, today) ==
    CASE kw = "today"                   -> <<today, today>>
      [] kw = "yesterday"               -> <<today - 1, today - 1>>
      [] kw \in {"week", "this week"}   -> <<today - 7, today>>
      [] kw \in {"month", "this month"} -> <<today - 30, today>>

DateKeywords ==
    {"today", "yesterday", "week", "this week", "month", "this month"}

(* args is <<>> or <<kw>>, kw lower-cased and stripped.  ret is the set of *)
(* notes listed in the reply.                                              *)
NotesCommand(bot, tid, args) ==
    LET today == DayOf(now)
        kw    == IF args = <<>> THEN "" ELSE args[1]
    IN  /\ \E r \in
              IF args = <<>>
              THEN LET g == GetRecentNotes(db, tid, 10)
                   IN  {[db |-> g.db, ret |-> SeqToSet(q)] : q \in g.rets}
              ELSE IF kw \in DateKeywords
              THEN {GetNotesByDateRange(db, tid, NotesWindow(kw, today)[1],
                                        NotesWindow(kw, today)[2])}
              ELSE LET g == SearchNotes(db, tid, kw, 8)
                   IN  {[db |-> g.db, ret |-> SeqToSet(q)] : q \in g.rets} :
              /\ db' = r.db
              /\ outbox' = Reply(IF r.ret = {} THEN "no_notes" ELSE "notes",
                                 Cardinality(r.ret))
              /\ last' = [op |-> "notes", tid |-> tid, kw |-> kw,
                          today |-> today, ret |-> r.ret]
        /\ UNCHANGED <<now, pc, session_state>>

(* A night passes.                                                         *)
NightPasses ==
    /\ DayOf(now) < NotesLastDay
    /\ now' = now + TicksPerDay
    /\ UNCHANGED <<db, outbox, last, pc, session_state>>

NotesArgs == {<<>>, <<"ab">>, <<"today">>, <<"week">>, <<"month">>}

NextNotes ==
    \/ NoteEntryForm(1, "Ab", "50k", <<>>)
    \/ \E bot \in Bots, args \in NotesArgs : NotesCommand(bot, 1, args)
    \/ NightPasses

SpecNotes == Init /\ [][NextNotes]_vars

---------------------------------------------------------------------------
(* The dashboard's delete button: app.py:67-84.                            *)

(* app.py:289, 399, 511, 551, 587: the prefixes of the buttons.            *)
Prefixes == {"food_m", "food", "note", "workout"}

(* app.py:68: the session key of the button of one row.                    *)
Key(prefix, row_id) == <<prefix, row_id>>

(* app.py:289, 399, 511, 551, 587: the table a button's rows come from.    *)
TableOf(d, prefix) ==
    CASE prefix \in {"food_m", "food"} -> d.food_logs
      [] prefix = "note"                -> d.notes
      [] prefix = "workout"             -> d.workouts

(* app.py:289, 399, 511, 551, 587: the delete_fn a button is given.        *)
DeleteFn(d, prefix, tid, row_id) ==
    CASE prefix \in {"food_m", "food"} -> DeleteFoodLog(d, tid, row_id)
      [] prefix = "note"                -> DeleteNote(d, tid, row_id)
      [] prefix = "workout"             -> DeleteWorkout(d, tid, row_id)

(* The pages draw a button for each row fetched for the selected owner.    *)
Displayed(d, prefix, tid, row_id) ==
    \E r \in TableOf(d, prefix) :
       r.id = row_id /\ r.user_id \in {u.id : u \in UsersByTelegramId(d, tid)}

KeepFlag(ss, key) == ss

(* app.py:75, 79: del st.session_state[key].                               *)
ClearFlag(ss, key) == ss \ {key}

(* app.py:82-84: the delete button, drawn while the flag is not set.       *)
PressDelete(prefix, row_id, tid) ==
    /\ Displayed(db, prefix, tid, row_id)
    /\ Key(prefix, row_id) \notin session_state
    /\ session_state' = session_state \cup {Key(prefix, row_id)}
    /\ last' = [op |-> "press_delete", tid |-> tid, key |-> Key(prefix, row_id)]
    /\ UNCHANGED <<db, now, outbox, pc>>

(* app.py:69-76: Confirm, drawn while the flag is set.  When the store     *)
(* raises, the exception leaves the function before the flag is deleted.   *)
PressConfirm(prefix, row_id, tid, ok) ==
    /\ Displayed(db, prefix, tid, row_id)
    /\ Key(prefix, row_id) \in session_state
    /\ IF ok
       THEN \E r \in {DeleteFn(db, prefix, tid, row_id)} :
               /\ db' = r.db
               /\ session_state' = ClearFlag(session_state, Key(prefix, row_id))
               /\ last' = [op |-> "press_confirm", tid |-> tid,
                           key |-> Key(prefix, row_id), ret |-> {r.ret}]
       ELSE /\ last' = [op |-> "press_confirm", tid |-> tid,
                        key |-> Key(prefix, row_id), ret |-> {}]
            /\ UNCHANGED <<db, session_state>>
    /\ UNCHANGED <<now, outbox, pc>>

(* app.py:77-80: Cancel, drawn while the flag is set.                      *)
PressCancel(prefix, row_id, tid) ==
    /\ Displayed(db, prefix, tid, row_id)
    /\ Key(prefix, row_id) \in session_state
    /\ session_state' = ClearFlag(session_state, Key(prefix, row_id))
    /\ last' = [op |-> "press_cancel", tid |-> tid, key |-> Key(prefix, row_id)]
    /\ UNCHANGED <<db, now, outbox, pc>>

(* The dashboard: manual entry and the delete buttons of every page.       *)
NextDashboard ==
    \/ \E tid \in Owners : FoodEntryForm(tid, "Oatmeal", 300, 100, 600, 80)
    \/ \E tid \in Owners : WorkoutEntryForm(tid, "Running", 30, 50)
    \/ \E tid \in Owners : NoteEntryForm(tid, "Slept badly", "Sleep", <<"sleep">>)
    \/ \E prefix \in Prefixes, id \in RecordIds, tid \in Owners :
          PressDelete(prefix, id, tid)
    \/ \E prefix \in Prefixes, id \in RecordIds, tid \in Owners, ok \in BOOLEAN :
          PressConfirm(prefix, id, tid, ok)
    \/ \E prefix \in Prefixes, id \in RecordIds, tid \in Owners :
          PressCancel(prefix, id, tid)

SpecDashboard == Init /\ [][NextDashboard]_vars

(* Two owners using the dashboard and the commands side by side: manual   *)
(* entry, deletion and profile updates.                                    *)
NextOwners ==
    \/ \E tid \in Owners : FoodEntryForm(tid, "Oatmeal", 300, 100, 600, 80)
    \/ \E tid \in Owners : WorkoutEntryForm(tid, "Running", 30, 50)
    \/ \E tid \in Owners : NoteEntryForm(tid, "Slept badly", "Sleep", <<"sleep">>)
    \/ \E tid \in Owners, id \in RecordIds : DeleteNoteCall(tid, id)
    \/ \E tid \in Owners, id \in RecordIds : DeleteFoodLogCall(tid, id)
    \/ \E tid \in Owners, id \in RecordIds : DeleteWorkoutCall(tid, id)
    \/ \E tid \in Owners : ProfileForm(tid, 500)
    \/ DayPasses

SpecOwners == Init /\ [][NextOwners]_vars

(* Notes entered through the form, searched by keyword.                    *)
SearchLimits == {1, 2}

NextSearch ==
    \/ \E tid \in Owners, content \in SearchTexts, summary \in {"50k", "Ab"} :
          NoteEntryForm(tid, content, summary, <<>>)
    \/ \E tid \in Owners, query \in Keywords, limit \in SearchLimits :
          SearchNotesCall(tid, query, limit)
    \/ Tick

SpecSearch == Init /\ [][NextSearch]_vars

---------------------------------------------------------------------------
(* One request, call by call.  A worker serves a free-text message         *)
(* (webhook_bot.py:451-512, bot.py:262-329), /recommend                    *)
(* (webhook_bot.py:325-352) or /insights (webhook_bot.py:355-365) by       *)
(* issuing the calls of the handler in the order of the code; each oracle, *)
(* store or transport call is one step and may raise.  calls is the list   *)
(* of calls issued so far, todo the calls the handler still has to make.   *)

StoreCalls ==
    {"insert_note", "insert_food_log", "insert_workout",
     "get_daily_nutrition", "get_daily_workouts", "get_user_profile",
     "get_wellness_context"}

InsertCalls == {"insert_note", "insert_food_log", "insert_workout"}

TextCalls == {"generate_recommendation", "generate_insights"}

(* The calls of a handler up to its first branch.                          *)
Script(kind) ==
    CASE kind = "text" -> <<"classify">>
      [] kind = "recommend" ->
            <<"get_daily_nutrition", "get_user_profile",
              "generate_recommendation", "send">>
      [] OTHER ->
            <<"send", "get_wellness_context", "generate_insights", "send">>

AfterClassifyReadFirst(bot, c) ==
    CASE c.type = "question" -> <<"send">>
      [] c.type = "note" -> <<"insert_note", "send">>
      [] c.type = "food" ->
            IF bot = "webhook"
            THEN <<"get_daily_nutrition", "insert_food_log",
                   "get_user_profile", "send">>
            ELSE <<"get_daily_nutrition", "insert_food_log", "send">>
      [] OTHER -> <<"get_daily_workouts", "insert_workout", "send">>

(* The calls of the branch taken for a classification result.              *)
AfterClassify(bot, c) ==
    CASE c.type = "question" -> <<"send">>
      [] c.type = "note" -> <<"insert_note", "send">>
      [] c.type = "food" ->
            IF bot = "webhook"
            THEN <<"insert_food_log", "get_daily_nutrition",
                   "get_user_profile", "send">>
            ELSE <<"insert_food_log", "get_daily_nutrition", "send">>
      [] OTHER -> <<"insert_workout", "get_daily_workouts", "send">>

NewRequest(kind, bot, tid) ==
    [at |-> "run", kind |-> kind, bot |-> bot, tid |-> tid,
     c |-> Raised("pending"), todo |-> Script(kind), calls |-> <<>>,
     row |-> 0, entry |-> 0, total |-> 0, day |-> 0, failed_at |-> 0]

RetryOnException(at) == at

(* webhook_bot.py:558-563, bot.py:325-329: an exception raised by any call *)
(* of the handler ends the handler in the except branch.                   *)
OnException(at) == "except"

Issued(p, call) == [p EXCEPT !.calls = Append(@, call)]

Raise(p, call) ==
    [Issued(p, call) EXCEPT
        !.at = OnException(p.at),
        !.failed_at = IF p.failed_at = 0 THEN Len(p.calls) + 1 ELSE @]

Return(p, call) == [Issued(p, call) EXCEPT !.todo = Tail(@)]

Running(w, calls) ==
    /\ pc[w].at = "run"
    /\ pc[w].todo # <<>>
    /\ Head(pc[w].todo) \in calls

RequestReceived(w, kind, bot, tid) ==
    /\ pc[w].at \in {"idle", "done"}
    /\ kind # "text" => bot = "webhook"
    /\ pc' = [pc EXCEPT ![w] = NewRequest(kind, bot, tid)]
    /\ UNCHANGED <<db, now, outbox, last, session_state>>

(* claude_client.py:24-49 called at webhook_bot.py:453, bot.py:279.         *)
ClassifyStep(w, raw) ==
    /\ Running(w, {"classify"})
    /\ LET c == Classified[raw]
           p == pc[w]
       IN  pc' = [pc EXCEPT ![w] =
                    IF c.err # "none"
                    THEN Raise(p, "classify")
                    ELSE [Issued(p, "classify") EXCEPT
                             !.c = c, !.todo = AfterClassify(p.bot, c)]]
    /\ UNCHANGED <<db, now, outbox, last, session_state>>

(* One call on the store: the inserts of database.py:54-60, 103-110 and    *)
(* 144-152 and the reads of 48-50, 112-130, 163-173 and 220-286.           *)
StoreStep(w, ok) ==
    /\ Running(w, StoreCalls)
    /\ LET p    == pc[w]
           call == Head(p.todo)
       IN  /\ call \in InsertCalls => RowsInserted(db) < MaxRecords
           /\ IF ~ok
              THEN /\ pc' = [pc EXCEPT ![w] = Raise(p, call)]
                   /\ db' = db
              ELSE CASE call = "insert_note" ->
                        \E r \in {InsertNote(db, p.tid, p.c.data.content,
                                              p.c.data.summary, p.c.data.tags,
                                              now)} :
                           /\ db' = r.db
                           /\ pc' = [pc EXCEPT ![w] =
                                       [Return(p, call) EXCEPT
                                           !.row = r.row.id]]
                     [] call = "insert_food_log" ->
                        \E r \in {InsertFoodLog(db, p.tid,
                                       p.c.data.food_description,
                                       p.c.data.calories, p.c.data.protein,
                                       p.c.data.carbs, p.c.data.fat, now)} :
                           /\ db' = r.db
                           /\ pc' = [pc EXCEPT ![w] =
                                       [Return(p, call) EXCEPT
                                           !.row = r.row.id,
                                           !.entry = r.row.calories]]
                     [] call = "insert_workout" ->
                        \E r \in {InsertWorkout(db, p.tid,
                                       p.c.data.activity_type,
                                       p.c.data.duration_mins,
                                       p.c.data.distance_km, p.c.data.notes,
                                       now)} :
                           /\ db' = r.db
                           /\ pc' = [pc EXCEPT ![w] =
                                       [Return(p, call) EXCEPT
                                           !.row = r.row.id,
                                           !.entry = r.row.duration_mins]]
                     [] call = "get_daily_nutrition" ->
                        \E r \in {GetDailyNutrition(db, p.tid, DayOf(now))} :
                           /\ db' = r.db
                           /\ pc' = [pc EXCEPT ![w] =
                                       [Return(p, call) EXCEPT
                                           !.total = r.ret.total_calories,
                                           !.day = DayOf(now)]]
                     [] call = "get_daily_workouts" ->
                        \E r \in {GetDailyWorkouts(db, p.tid, DayOf(now))} :
                           /\ db' = r.db
                           /\ pc' = [pc EXCEPT ![w] =
                                       [Return(p, call) EXCEPT
                                           !.total = SumDuration(r.ret),
                                           !.day = DayOf(now)]]
                     [] call = "get_user_profile" ->
                           /\ db' = GetUserProfile(db, p.tid).db
                           /\ pc' = [pc EXCEPT ![w] = Return(p, call)]
                     [] OTHER ->
                           /\ db' = GetOrCreateUser(db, p.tid).db
                           /\ pc' = [pc EXCEPT ![w] = Return(p, call)]
    /\ UNCHANGED <<now, outbox, last, session_state>>

(* claude_client.py:53-80 called at webhook_bot.py:351 and 364.            *)
TextStep(w, ok) ==
    /\ Running(w, TextCalls)
    /\ pc' = [pc EXCEPT ![w] =
                 IF ok THEN Return(pc[w], Head(pc[w].todo))
                       ELSE Raise(pc[w], Head(pc[w].todo))]
    /\ UNCHANGED <<db, now, outbox, last, session_state>>

(* webhook_bot.py:74-77, bot.py:57-62: a message to the chat; the last     *)
(* call of every handler.                                                  *)
SendStep(w, ok) ==
    /\ Running(w, {"send"})
    /\ LET p == pc[w]
       IN  IF ~ok
           THEN /\ pc' = [pc EXCEPT ![w] = Raise(p, "send")]
                /\ outbox' = outbox
           ELSE /\ pc' = [pc EXCEPT ![w] =
                            [Return(p, "send") EXCEPT
                                !.at = IF Tail(p.todo) = <<>>
                                       THEN "done" ELSE "run"]]
                /\ outbox' = <<[Msg EXCEPT !.kind = p.kind,
                                           !.entry = p.entry,
                                           !.total = p.total]>>
    /\ UNCHANGED <<db, now, last, session_state>>

(* webhook_bot.py:558-563, bot.py:325-329: the failure text is sent and    *)
(* the request ends.                                                       *)
ExceptStep(w) ==
    /\ pc[w].at = "except"
    /\ pc' = [pc EXCEPT ![w].at = "done"]
    /\ outbox' = <<FailureMsg>>
    /\ UNCHANGED <<db, now, last, session_state>>

RequestKinds == {"text", "recommend", "insights"}

(* One worker serving requests of every kind, any call of which may raise. *)
NextCalls ==
    \/ \E kind \in RequestKinds, bot \in Bots, tid \in Owners :
          RequestReceived(1, kind, bot, tid)
    \/ \E raw \in RouterResponses : ClassifyStep(1, raw)
    \/ \E ok \in BOOLEAN : StoreStep(1, ok)
    \/ \E ok \in BOOLEAN : TextStep(1, ok)
    \/ \E ok \in BOOLEAN : SendStep(1, ok)
    \/ ExceptStep(1)

SpecCalls == Init /\ [][NextCalls]_vars

(* webhook_bot.py:571-579: every update is a web request of its own with   *)
(* an event loop of its own, so the server's workers serve two messages of *)
(* one owner concurrently.  Here the owner                                 *)
(* has a profile before the two messages arrive, both are classified as    *)
(* loggable and no call fails; the calls of the two handlers interleave    *)
(* in every order and midnight may pass between any two calls.             *)
LoggableResponses ==
    {Json(NotePayload), Json(FoodPayload(350)), Json(WorkoutPayload)}

NextRace ==
    \/ ProfileCommand("webhook", 1)
    \/ \E w \in Workers :
          /\ pc[w].at = "idle"
          /\ UsersByTelegramId(db, 1) # {}
          /\ RequestReceived(w, "text", "webhook", 1)
    \/ \E w \in Workers, raw \in LoggableResponses : ClassifyStep(w, raw)
    \/ \E w \in Workers : StoreStep(w, TRUE)
    \/ \E w \in Workers : SendStep(w, TRUE)
    \/ DayPasses

SpecRace == Init /\ [][NextRace]_vars

---------------------------------------------------------------------------
(* Properties.                                                             *)

(* The owner of a row: the telegram id of the profile it references.       *)
OwnerOf(d, r) == (CHOOSE u \in d.users : u.id = r.user_id).telegram_id

OwnedRow(d, rows, tid, id) ==
    \E r \in rows : r.id = id /\ OwnerOf(d, r) = tid

(* C1: handling an utterance that the oracle classifies as a question      *)
(* leaves every table (profiles, notes, food logs, workouts) and the id    *)
(* generators exactly as they were, whatever the owner and the store.      *)
C1_QuestionWritesNothing ==
    [][\A bot \in Bots, tid \in Owners, fail \in {"none", "send"} :
         HandleText(bot, tid, Json(QuestionPayload), fail, FALSE)
            => db' = db]_vars

(* C1 witness: a question was answered while the store held records.       *)
C1_Witness ==
    /\ last.op = "text" /\ last.type = "question" /\ last.fail = "none"
    /\ outbox = <<[Msg EXCEPT !.kind = "answer"]>>
    /\ RowsInserted(db) > 0

(* C2: a delete by owner A of an id that A does not own (the row belongs   *)
(* to another owner, or no row has that id) returns False and leaves the   *)
(* table as it was, for notes, food logs and workouts alike.               *)
C2_ForeignDeleteNotFound ==
    [][\A tid \in Owners, id \in RecordIds :
         /\ (DeleteNoteCall(tid, id) /\ ~OwnedRow(db, db.notes, tid, id))
               => (last'.ret = FALSE /\ db'.notes = db.notes)
         /\ (DeleteFoodLogCall(tid, id) /\ ~OwnedRow(db, db.food_logs, tid, id))
               => (last'.ret = FALSE /\ db'.food_logs = db.food_logs)
         /\ (DeleteWorkoutCall(tid, id) /\ ~OwnedRow(db, db.workouts, tid, id))
               => (last'.ret = FALSE /\ db'.workouts = db.workouts)]_vars

(* C2 witness: a delete of another owner's food log returned False and the *)
(* row is still there.                                                     *)
C2_Witness ==
    /\ last.op = "delete_food_log" /\ last.ret = FALSE
    /\ \E r \in db.food_logs : r.id = last.id /\ OwnerOf(db, r) # last.tid

(* C3: a delete by the owner of an existing row returns True and removes   *)
(* exactly that row, everything else unchanged; a delete of an id that was *)
(* handed out before and is gone returns False and changes nothing.        *)
C3_DeleteTwice ==
    [][\A tid \in Owners, id \in RecordIds :
         /\ \A r \in db.notes :
              (DeleteNoteCall(tid, id) /\ r.id = id /\ OwnerOf(db, r) = tid)
                 => (last'.ret = TRUE
                     /\ db' = [db EXCEPT !.notes = @ \ {r}])
         /\ \A r \in db.food_logs :
              (DeleteFoodLogCall(tid, id) /\ r.id = id /\ OwnerOf(db, r) = tid)
                 => (last'.ret = TRUE
                     /\ db' = [db EXCEPT !.food_logs = @ \ {r}])
         /\ \A r \in db.workouts :
              (DeleteWorkoutCall(tid, id) /\ r.id = id /\ OwnerOf(db, r) = tid)
                 => (last'.ret = TRUE
                     /\ db' = [db EXCEPT !.workouts = @ \ {r}])
         /\ (DeleteNoteCall(tid, id) /\ Repeats("delete_note", tid, id))
               => (last'.ret = FALSE /\ db' = db)
         /\ (DeleteFoodLogCall(tid, id) /\ Repeats("delete_food_log", tid, id))
               => (last'.ret = FALSE /\ db' = db)
         /\ (DeleteWorkoutCall(tid, id) /\ Repeats("delete_workout", tid, id))
               => (last'.ret = FALSE /\ db' = db)]_vars

(* C3 witness: the second of two deletes of one food log by its owner      *)
(* has returned False, other rows being present.                           *)
C3_Witness ==
    /\ last.op = "delete_food_log" /\ last.again /\ last.ret = FALSE
    /\ db.food_logs # {}

(* C4: when classification fails (the oracle call fails, the response is   *)
(* not JSON or not a JSON object, the type is unknown, a field constraint  *)
(* is violated) the store is unchanged and the user is sent the failure    *)
(* text.                                                                   *)
C4_ClassificationFailureWritesNothing ==
    [][\A bot \in Bots, tid \in Owners, raw \in FailingResponses :
         HandleText(bot, tid, raw, "none", FALSE)
            => (db' = db /\ outbox' = <<FailureMsg>>)]_vars

(* C4 witness: a payload violating a field constraint was rejected.        *)
C4_Witness ==
    /\ last.op = "text" /\ last.err = "schema"
    /\ outbox = <<FailureMsg>>
    /\ RowsInserted(db) > 0

(* C5, as claimed: a request in which any call raises (here a store or     *)
(* transport call, before or after the insert) leaves the store equal to   *)
(* its state before the request and sends exactly one message, the         *)
(* failure text.                                                           *)
C5_ErrorLeavesStoreUnchanged ==
    [][\A bot \in Bots, tid \in Owners, raw \in ValidResponses,
          fail \in {"user", "insert", "read", "send"}, late \in BOOLEAN :
         HandleText(bot, tid, raw, fail, late)
            => (db' = db /\ outbox' = <<FailureMsg>>)]_vars

(* The rows of owner tid created on calendar day day.                      *)
OwnerRowsOn(d, rows, tid, day) ==
    {r \in rows : OwnerOf(d, r) = tid /\ DayOf(r.created_at) = day}

(* C6, as claimed: the running total in the reply to a logged meal or      *)
(* workout always includes the entry just logged: day calories >= the      *)
(* entry's calories and entry count >= 1 for a meal, day minutes >= the    *)
(* entry's duration for a workout.                                         *)
C6_TotalAlwaysIncludesNewEntry ==
    (last.op = "text" /\ last.err = "none" /\ last.fail = "none") =>
       /\ last.type = "food" =>
            /\ outbox[1].total >= outbox[1].entry
            /\ \A n \in outbox[1].count : n >= 1
       /\ last.type = "workout" => outbox[1].total >= outbox[1].entry

(* C6, amended: the insert precedes the re-read, so whenever the day the   *)
(* re-read queries is the day the new row was stamped with, the reply's    *)
(* total is that of the owner's rows of the day including the new row:     *)
(* total >= the entry's own amount and the entry count (where shown) >= 1. *)
C6_TotalIncludesNewEntry ==
    (last.op = "text" /\ last.err = "none" /\ last.fail = "none") =>
       /\ last.type = "food" =>
            \E r \in db.food_logs :
               /\ r.id = last.row /\ OwnerOf(db, r) = last.tid
               /\ outbox[1].entry = r.calories
               /\ DayOf(r.created_at) = last.day =>
                    /\ outbox[1].total >= outbox[1].entry
                    /\ \A n \in outbox[1].count : n >= 1
                    /\ outbox[1].total =
                          SumCalories(OwnerRowsOn(db, db.food_logs, last.tid,
                                                  last.day))
       /\ last.type = "workout" =>
            \E r \in db.workouts :
               /\ r.id = last.row /\ OwnerOf(db, r) = last.tid
               /\ outbox[1].entry = r.duration_mins
               /\ DayOf(r.created_at) = last.day =>
                    /\ outbox[1].total >= outbox[1].entry
                    /\ outbox[1].total =
                          SumDuration(OwnerRowsOn(db, db.workouts, last.tid,
                                                  last.day))

(* C6 witness: a second meal of the day was logged, re-read on the same    *)
(* day, and the reply shows the sum of both.                               *)
C6_Witness ==
    /\ last.op = "text" /\ last.type = "food" /\ last.fail = "none"
    /\ \E r \in db.food_logs : r.id = last.row /\ DayOf(r.created_at) = last.day
    /\ outbox[1].entry = 350 /\ outbox[1].total = 700

(* C7: when an owner without a profile sends a loggable message, a profile *)
(* with calorie target 2000 exists before the record is inserted (it is    *)
(* there even when the insert itself then fails), the inserted record      *)
(* references it, and it is the owner's only profile.                      *)
C7_ProfileCreatedOnFirstContact ==
    (last.op = "text" /\ last.err = "none" /\ last.type # "question"
        /\ last.fresh /\ last.fail # "user") =>
       /\ Cardinality(UsersByTelegramId(db, last.tid)) = 1
       /\ \A u \in UsersByTelegramId(db, last.tid) :
            /\ u.daily_calorie_target = {2000}
            /\ last.fail # "insert" =>
                 \E r \in (CASE last.type = "note" -> db.notes
                             [] last.type = "food" -> db.food_logs
                             [] OTHER              -> db.workouts) :
                    r.id = last.row /\ r.user_id = u.id

(* C7 witness: a never-seen owner logged a meal.                           *)
C7_Witness ==
    /\ last.op = "text" /\ last.type = "food" /\ last.fresh
    /\ last.fail = "none"
    /\ outbox[1].kind = "food_logged"

(* C8, as claimed: the store never holds two profiles with one owner id.   *)
C8_AtMostOneProfilePerOwner ==
    \A tid \in Owners : Cardinality(UsersByTelegramId(db, tid)) <= 1

(* C9: the daily summary's calories_remaining is absent when the owner's   *)
(* profile has no calorie target and is target - total_calories, negative  *)
(* when over target, when it has one.                                      *)
C9_CaloriesRemaining ==
    last.op = "get_daily_summary" =>
       \A u \in UsersByTelegramId(db, last.tid) :
          /\ last.ret.calories_target = u.daily_calorie_target
          /\ u.daily_calorie_target = {} => last.ret.calories_remaining = {}
          /\ \A target \in u.daily_calorie_target :
                last.ret.calories_remaining =
                   {target - last.ret.total_calories}

(* C9 witness: a summary for an owner who is over target.                  *)
C9_Witness ==
    /\ last.op = "get_daily_summary"
    /\ \E x \in last.ret.calories_remaining : x < 0

(* C10: the daily summary's totals are the sum and the number of exactly   *)
(* the owner's food logs created on that date, the number and summed       *)
(* duration of the owner's workouts of that date and the number of the     *)
(* owner's notes of that date.                                             *)
C10_SummaryTotals ==
    last.op = "get_daily_summary" =>
       /\ last.ret.total_calories =
             SumCalories(OwnerRowsOn(db, db.food_logs, last.tid, last.day))
       /\ last.ret.food_entries =
             Cardinality(OwnerRowsOn(db, db.food_logs, last.tid, last.day))
       /\ last.ret.workout_count =
             Cardinality(OwnerRowsOn(db, db.workouts, last.tid, last.day))
       /\ last.ret.workout_minutes =
             SumDuration(OwnerRowsOn(db, db.workouts, last.tid, last.day))
       /\ last.ret.notes_count =
             Cardinality(OwnerRowsOn(db, db.notes, last.tid, last.day))

(* C10 witness: two meals of 300 and 450 kcal on one day give 750 and 2.   *)
C10_Witness ==
    /\ last.op = "get_daily_summary"
    /\ last.ret.total_calories = 750 /\ last.ret.food_entries = 2

(* The owner's food logs of the last days days up to today.                *)
WindowLogs(d, tid, days, today) ==
    {r \in d.food_logs :
        /\ OwnerOf(d, r) = tid
        /\ DayOf(r.created_at) > today - days
        /\ DayOf(r.created_at) <= today}

(* C11: avg_daily_kcal of the wellness context is the window's total       *)
(* calories divided by the number of distinct days that have a food entry  *)
(* (rounded to a whole number, within one half of the exact quotient), not *)
(* by the window length, and 0 when the window holds no food entry.        *)
C11_AvgDailyKcal ==
    last.op = "get_wellness_context" =>
       LET logs  == WindowLogs(db, last.tid, last.days, last.today)
           n     == Cardinality({DayOf(r.created_at) : r \in logs})
           total == SumCalories(logs)
           avg   == last.ret.totals.avg_daily_kcal
       IN  /\ n = Cardinality(DOMAIN last.ret.daily_nutrition)
           /\ n = 0 => avg = 0
           /\ n > 0 => /\ 2 * (avg * n - total) <= n
                       /\ 2 * (total - avg * n) <= n
                       /\ (2 * (total - avg * n) = n \/ 2 * (avg * n - total) = n)
                             => avg % 2 = 0

(* C11 witness: a window longer than the number of days with entries: 300  *)
(* and 301 kcal on one day, a window of two days, average 601.             *)
C11_Witness ==
    /\ last.op = "get_wellness_context" /\ last.days = 2
    /\ Cardinality(DOMAIN last.ret.daily_nutrition) = 1
    /\ last.ret.totals.avg_daily_kcal = 601

(* C11 witness of the empty window: no food entry, average 0.              *)
C11_WitnessEmpty ==
    /\ last.op = "get_wellness_context"
    /\ last.ret.totals.food_entries = 0
    /\ last.ret.totals.avg_daily_kcal = 0

(* The range queries.                                                      *)
RangeOps ==
    {"get_notes_by_date_range", "get_food_logs_by_date_range",
     "get_workouts_by_date_range"}

(* What the other queries give in the state reached, for the owner and the *)
(* dates of the last call.                                                 *)
SingleDayResult ==
    CASE last.op = "get_food_logs_by_date_range" ->
            GetDailyNutrition(db, last.tid, last.start).ret.entries
      [] last.op = "get_workouts_by_date_range" ->
            GetDailyWorkouts(db, last.tid, last.start).ret
      [] OTHER -> GetNotesByDateRange(db, last.tid, last.start, last.start).ret

DayEarlierResult ==
    CASE last.op = "get_food_logs_by_date_range" ->
            GetFoodLogsByDateRange(db, last.tid, last.start - 1, last.end).ret
      [] last.op = "get_workouts_by_date_range" ->
            GetWorkoutsByDateRange(db, last.tid, last.start - 1, last.end).ret
      [] OTHER ->
            GetNotesByDateRange(db, last.tid, last.start - 1, last.end).ret

TableOfLast ==
    CASE last.op \in {"get_food_logs_by_date_range", "get_daily_nutrition"} ->
            db.food_logs
      [] last.op \in {"get_workouts_by_date_range", "get_daily_workouts"} ->
            db.workouts
      [] OTHER -> db.notes

(* C12, as claimed: a range query with start = end gives the single-day    *)
(* query's records and a strict subset of the range query [start-1, end].  *)
C12_SingleDayRangeStrictSubset ==
    (last.op \in RangeOps /\ last.start = last.end) =>
       /\ last.ret = SingleDayResult
       /\ last.ret \subseteq DayEarlierResult
       /\ last.ret # DayEarlierResult

(* C12, amended: a food or workout range query with start = end gives the  *)
(* records of the single-day query for that date (a note range query the   *)
(* number the daily summary counts), and a subset of the range query       *)
(* [start-1, end], strict exactly when the owner has a record of the kind  *)
(* created on day start-1.                                                 *)
C12_SingleDayRange ==
    (last.op \in RangeOps /\ last.start = last.end) =>
       /\ last.ret = SingleDayResult
       /\ last.op = "get_notes_by_date_range" =>
             Cardinality(last.ret) =
                GetDailySummary(db, last.tid, last.start).ret.notes_count
       /\ last.ret \subseteq DayEarlierResult
       /\ last.ret # DayEarlierResult
             <=> OwnerRowsOn(db, TableOfLast, last.tid, last.start - 1) # {}

(* C12 witness: a one-day food range returned a record while the owner     *)
(* has another one from the day before.                                    *)
C12_Witness ==
    /\ last.op = "get_food_logs_by_date_range" /\ last.start = last.end
    /\ last.ret # {}
    /\ OwnerRowsOn(db, db.food_logs, last.tid, last.start - 1) # {}

(* The first and the last instant of a calendar day.                       *)
FirstInstantOf(day) ==
    CHOOSE t \in Instants :
       DayOf(t) = day /\ \A u \in Instants : DayOf(u) = day => t <= u

LastInstantOf(day) ==
    CHOOSE t \in Instants :
       DayOf(t) = day /\ \A u \in Instants : DayOf(u) = day => u <= t

ClosedInterval(rows) ==
    {r \in rows : /\ OwnerOf(db, r) = last.tid
                  /\ FirstInstantOf(last.start) <= r.created_at
                  /\ r.created_at <= LastInstantOf(last.end)}

(* C13: every time-bounded query (note, food and workout ranges, daily     *)
(* nutrition, daily workouts, the note count of the daily summary) returns *)
(* exactly the owner's records created at an instant t with                *)
(* first-instant(start) <= t <= last-instant(end), both ends included.     *)
C13_ClosedDayInterval ==
    /\ last.op \in RangeOps \cup {"get_daily_nutrition", "get_daily_workouts"}
          => last.ret = ClosedInterval(TableOfLast)
    /\ last.op = "notes_count"
          => last.ret = Cardinality(ClosedInterval(db.notes))

(* C13 witness: a note range returned a note created at the last instant   *)
(* of end and left out the owner's note created one instant later.         *)
C13_Witness ==
    /\ last.op = "get_notes_by_date_range"
    /\ \E r \in last.ret : r.created_at = LastInstantOf(last.end)
    /\ \E r \in db.notes :
          /\ OwnerOf(db, r) = last.tid /\ r \notin last.ret
          /\ r.created_at = LastInstantOf(last.end) + 1

NearestOneDecimal(stored, h) ==
    /\ stored % 10 = 0
    /\ stored - h <= 5
    /\ h - stored <= 5

(* C14: for every valid Food payload the router stores protein, carbs and  *)
(* fat rounded to one decimal place (a value with one decimal, at most     *)
(* 0.05 from the payload's) and the payload's integer calories unchanged.  *)
C14_StoredMacrosRounded ==
    (last.op = "text" /\ last.raw \in FoodResponses) =>
       \E r \in db.food_logs :
          /\ r.id = last.row
          /\ r.calories = last.raw.data.calories
          /\ NearestOneDecimal(r.protein, last.raw.data.protein)
          /\ NearestOneDecimal(r.carbs, last.raw.data.carbs)
          /\ NearestOneDecimal(r.fat, last.raw.data.fat)

(* C14 witness: a meal with 7.96 g of fat was logged through the router    *)
(* and is stored with 8.0 g.                                               *)
C14_Witness ==
    /\ last.op = "text" /\ last.type = "food"
    /\ last.raw.data.fat = 796 /\ last.raw.data.carbs = 6004
    /\ \E r \in db.food_logs :
          r.id = last.row /\ r.fat = 800 /\ r.carbs = 6000 /\ r.calories = 350

(* C15, as claimed: every food log has a non-empty description, calories   *)
(* >= 0 and protein, carbs and fat >= 0 with one decimal; every workout    *)
(* has a non-empty activity, duration >= 1 and distance absent or >= 0,    *)
(* whether it came through the router or through the dashboard's forms.    *)
C15_StoredFieldConstraints ==
    /\ \A r \in db.food_logs :
          /\ r.food_description # ""
          /\ r.calories >= 0
          /\ r.protein >= 0 /\ r.protein % 10 = 0
          /\ r.carbs >= 0 /\ r.carbs % 10 = 0
          /\ r.fat >= 0 /\ r.fat % 10 = 0
    /\ \A r \in db.workouts :
          /\ r.activity_type # ""
          /\ r.duration_mins >= 1
          /\ \A x \in r.distance_km : x >= 0

(* C16, as claimed: every segment of a split reply is at most 4096         *)
(* characters long and every cut falls at a line boundary (a segment that  *)
(* is followed by another ends with a newline).                            *)
C16_SegmentsWithinLimit ==
    last.op = "send" =>
       /\ \A i \in 1..Len(last.ret) : TextLen(last.ret[i]) <= TG_MAX
       /\ \A i \in 1..(Len(last.ret) - 1) :
             \/ last.ret[i] = <<>>
             \/ last.ret[i][Len(last.ret[i])].newline

RecognizedTypes == {"question", "note", "food", "workout"}

(* C17, as claimed: whenever the parsed payload has no type discriminator  *)
(* or a type that is not one of the four, classification raises the        *)
(* unknown-type error and the router gets no variant.                      *)
C17_UnknownTypeError ==
    ( /\ last.op = "text"
      /\ last.raw.api_ok /\ last.raw.json_ok
      /\ \/ ~last.raw.object
         \/ "type" \notin last.raw.data.keys
         \/ last.raw.data.type \notin RecognizedTypes )
       => (last.err = "unknown" /\ last.type = "")

Has(data, key) == key \in data.keys

ConstraintsHold(data) ==
    /\ Has(data, "confidence") /\ data.confidence \in 0..100
    /\ data.type = "question" => Has(data, "answer") /\ data.answer # ""
    /\ data.type = "note" =>
          /\ Has(data, "content") /\ data.content # ""
          /\ Has(data, "summary") /\ data.summary # ""
    /\ data.type = "food" =>
          /\ Has(data, "food_description") /\ data.food_description # ""
          /\ Has(data, "calories") /\ data.calories >= 0
          /\ Has(data, "protein") /\ data.protein >= 0
          /\ Has(data, "carbs") /\ data.carbs >= 0
          /\ Has(data, "fat") /\ data.fat >= 0
    /\ data.type = "workout" =>
          /\ Has(data, "activity_type") /\ data.activity_type # ""
          /\ Has(data, "duration_mins") /\ data.duration_mins >= 1
          /\ Has(data, "distance_km") => \A x \in data.distance_km : x >= 0

(* C18: for a payload of a recognized type, classification raises the      *)
(* schema error (and the router stores nothing) when a required field is   *)
(* missing or a field constraint is violated, and returns the variant of   *)
(* that type only when every constraint of the variant holds.              *)
C18_SchemaError ==
    (last.op = "text" /\ last.raw \in SchemaResponses) =>
       /\ ~ConstraintsHold(last.raw.data) =>
             (last.err = "schema" /\ last.type = "" /\ last.row = 0)
       /\ last.err = "none" =>
             (ConstraintsHold(last.raw.data) /\ last.type = last.raw.data.type)
       /\ last.err \in {"schema", "none"}

(* C18 witness: a workout payload with a duration of 0 minutes was         *)
(* rejected with the schema error and nothing was stored.                  *)
C18_Witness ==
    /\ last.op = "text" /\ last.err = "schema"
    /\ last.raw.data.type = "workout" /\ last.raw.data.duration_mins = 0
    /\ db = EmptyDb
    /\ outbox = <<FailureMsg>>

ProfileOf(d, tid) == First(UsersByTelegramId(d, tid))

(* C19, as claimed: a set-weight or set-goal argument is rejected exactly  *)
(* when it lies outside [20, 300] and a set-target argument exactly when   *)
(* it lies outside [500, 5000]; an accepted value is stored in the owner's *)
(* profile (here: a profile that existed before the command).              *)
C19_RejectedExactlyOutsideInterval ==
    /\ (last.op \in {"setweight", "setgoal"} /\ last.args # <<>>) =>
          /\ last.ok <=> (200 <= last.args[1] /\ last.args[1] <= 3000)
          /\ (last.ok /\ ~last.fresh) =>
                IF last.op = "setweight"
                THEN ProfileOf(db, last.tid).current_weight = {last.args[1]}
                ELSE ProfileOf(db, last.tid).goal_weight = {last.args[1]}
    /\ (last.op = "settarget" /\ last.args # <<>>) =>
          /\ last.ok <=> (500 <= last.args[1] /\ last.args[1] <= 5000)
          /\ (last.ok /\ ~last.fresh) =>
                ProfileOf(db, last.tid).daily_calorie_target = {last.args[1]}

(* C20, as claimed: after an accepted set-weight, set-goal, set-target or  *)
(* set-macros command (the success confirmation was sent) from an owner    *)
(* without a profile, a profile of that owner exists and holds the value.  *)
C20_AcceptedCommandStoresValue ==
    ( /\ last.op \in {"setweight", "setgoal", "settarget", "setmacros"}
      /\ last.ok /\ last.fresh ) =>
       /\ UsersByTelegramId(db, last.tid) # {}
       /\ \A u \in UsersByTelegramId(db, last.tid) :
             CASE last.op = "setweight" -> u.current_weight = {last.args[1]}
               [] last.op = "setgoal"   -> u.goal_weight = {last.args[1]}
               [] last.op = "settarget" ->
                     u.daily_calorie_target = {last.args[1]}
               [] OTHER -> /\ u.protein_target = {last.args[1]}
                           /\ u.carbs_target = {last.args[2]}
                           /\ u.fat_target = {last.args[3]}

(* C21, as claimed: when the owner has a calorie target, the reply to a    *)
(* logged meal shows the remaining calories, the target minus the day's    *)
(* total after the write, whichever bot routed the message.                *)
C21_FoodReplyShowsRemaining ==
    ( /\ last.op = "text" /\ last.err = "none" /\ last.fail = "none"
      /\ last.type = "food" ) =>
       \A u \in UsersByTelegramId(db, last.tid) :
          \A target \in u.daily_calorie_target :
             outbox[1].remaining =
                {target - SumCalories(OwnerRowsOn(db, db.food_logs, last.tid,
                                                  last.day))}

(* app.py:326: the wellness tags of the insights page.                     *)
WellnessTags ==
    {"mood", "energy", "sleep", "stress", "productivity", "focus",
     "motivation", "social", "health"}

(* C22, as claimed: the reply to a saved note carries the insights tip     *)
(* exactly when one of the note's tags is a wellness tag.                  *)
C22_TipIffWellnessTag ==
    (last.op = "text" /\ last.type = "note" /\ last.err = "none") =>
       (outbox[1].tip <=>
           SeqToSet(last.raw.data.tags) \cap WellnessTags # {})

(* C23, as claimed: generate_summary_text never raises and never returns   *)
(* an empty text, and returns the templated sentence whenever the oracle   *)
(* call or the building of its prompt fails, for any summary data;         *)
(* generate_recommendation and generate_insights raise when the oracle     *)
(* call fails.                                                             *)
C23_SummaryTextNeverFails ==
    /\ last.op = "generate_summary_text" =>
          /\ last.ret.err = "none"
          /\ last.ret.text.kind # "empty"
          /\ ( \/ last.oracle \in {"error", "no_content"}
               \/ ~(TemplateKeys \subseteq last.data.keys) )
                => last.ret.text.kind = "template"
    /\ ( /\ last.op \in {"generate_recommendation", "generate_insights"}
         /\ last.oracle \in {"error", "no_content"} )
          => last.ret.err # "none"

RECURSIVE CountIn(_, _)
CountIn(calls, names) ==
    IF calls = <<>> THEN 0
    ELSE (IF Head(calls) \in names THEN 1 ELSE 0) + CountIn(Tail(calls), names)

Contains(text, keyword) ==
    \E i \in 0..(Len(text) - Len(keyword)) :
       \A j \in 1..Len(keyword) : Lower(text[i + j]) = Lower(keyword[j])

Matches(d, tid, query) ==
    {n \in d.notes :
        /\ OwnerOf(d, n) = tid
        /\ \/ Contains(Spell(n.content), Spell(query))
           \/ Contains(Spell(n.summary), Spell(query))}

(* C25, as claimed: search_notes returns the limit newest notes of the     *)
(* owner whose content or summary contains the keyword: only such notes,   *)
(* each once, newest first, as many as there are up to the limit, and no   *)
(* match left out that is newer than a returned one.                       *)
C25_SearchNotes ==
    last.op = "search_notes" =>
       LET ret == last.ret
           matches == Matches(db, last.tid, last.query)
       IN  /\ \A i \in 1..Len(ret) : ret[i] \in matches
           /\ \A i \in 1..Len(ret), j \in 1..Len(ret) :
                 i < j => /\ ret[i].id # ret[j].id
                          /\ ret[i].created_at >= ret[j].created_at
           /\ Len(ret) = IF Cardinality(matches) < last.limit
                         THEN Cardinality(matches) ELSE last.limit
           /\ \A m \in matches \ SeqToSet(ret) :
                 \A i \in 1..Len(ret) : m.created_at <= ret[i].created_at

(* Everything owner tid can see of the store d: the profile, the records   *)
(* and the answer of every query, summary and running total.               *)
OwnerView(d, tid) ==
    [profile   |-> UsersByTelegramId(d, tid),
     notes     |-> {r \in d.notes : OwnerOf(d, r) = tid},
     food_logs |-> {r \in d.food_logs : OwnerOf(d, r) = tid},
     workouts  |-> {r \in d.workouts : OwnerOf(d, r) = tid},
     summary   |-> [day \in Days |-> GetDailySummary(d, tid, day).ret],
     nutrition |-> [day \in Days |-> GetDailyNutrition(d, tid, day).ret],
     activity  |-> [day \in Days |-> GetDailyWorkouts(d, tid, day).ret],
     ranges    |-> [start \in Days, end \in Days |->
                      <<GetNotesByDateRange(d, tid, start, end).ret,
                        GetFoodLogsByDateRange(d, tid, start, end).ret,
                        GetWorkoutsByDateRange(d, tid, start, end).ret>>]]

(* C26: a request of one owner (an insert, a delete, a profile update)     *)
(* changes nothing another owner can see: the other owner's profile and    *)
(* records and the answers to the other owner's queries, summaries and     *)
(* running totals are the same before and after the request.               *)
C26_OwnersDoNotInteract ==
    [][\A tid \in Owners :
         (last'.op # "none" /\ last'.tid # tid)
            => OwnerView(db', tid) = OwnerView(db, tid)]_vars

(* C26 witness: owner 1 has just deleted a meal of theirs while owner 2    *)
(* holds a profile and a meal.                                             *)
C26_Witness ==
    /\ last.op = "delete_food_log" /\ last.tid = 1 /\ last.ret
    /\ UsersByTelegramId(db, 2) # {}
    /\ \E r \in db.food_logs : OwnerOf(db, r) = 2

Records(d) == d.notes \cup d.food_logs \cup d.workouts

NotesOfLastDays(d, tid, n, today) ==
    {r \in d.notes : /\ OwnerOf(d, r) = tid
                     /\ DayOf(r.created_at) \in (today - (n - 1))..today}

(* C28: /notes week lists exactly the owner's notes of the 7 calendar days *)
(* ending today, the window of get_wellness_context for 7 days, and        *)
(* /notes month exactly those of the 30 calendar days ending today.        *)
C28_NotesWindows ==
    last.op = "notes" =>
       /\ last.kw = "week" =>
             /\ last.ret = NotesOfLastDays(db, last.tid, 7, last.today)
             /\ last.ret =
                  GetWellnessContext(db, last.tid, 7, last.today).ret.notes
       /\ last.kw = "month" =>
             last.ret = NotesOfLastDays(db, last.tid, 30, last.today)

(* The row a finished request p stored, if the store still holds it.       *)
RowOf(d, p) ==
    {r \in (CASE p.c.type = "food" -> d.food_logs
              [] p.c.type = "workout" -> d.workouts
              [] OTHER -> d.notes) :
        r.id = p.row /\ OwnerOf(d, r) = p.tid}

(* What the two requests logged as kind type on day day: how many entries  *)
(* and their amounts added up.                                             *)
LoggedOn(type, day) ==
    LET ws == {w \in Workers : /\ pc[w].c.type = type
                               /\ \E r \in RowOf(db, pc[w]) :
                                      DayOf(r.created_at) = day}
    IN  [count  |-> Cardinality(ws),
         amount |-> (IF 1 \in ws THEN pc[1].entry ELSE 0)
                     + (IF 2 \in ws THEN pc[2].entry ELSE 0)]

BothDone == \A w \in Workers : pc[w].at = "done" /\ pc[w].kind = "text"

(* Both records are stored and the summary of each day counts what the two *)
(* requests logged on it.                                                  *)
BothStoredAndCounted ==
    /\ \A w \in Workers : RowOf(db, pc[w]) # {}
    /\ pc[1].c.type = pc[2].c.type => pc[1].row # pc[2].row
    /\ \A day \in Days :
          LET s == GetDailySummary(db, 1, day).ret
          IN  /\ s.food_entries >= LoggedOn("food", day).count
              /\ s.total_calories >= LoggedOn("food", day).amount
              /\ s.workout_count >= LoggedOn("workout", day).count
              /\ s.workout_minutes >= LoggedOn("workout", day).amount
              /\ s.notes_count >= LoggedOn("note", day).count

(* C29, as claimed: after two concurrently served loggable messages of one *)
(* existing owner both records are stored, a later daily summary counts    *)
(* both, and each reply's running total includes the request's own entry.  *)
C29_NoWriteLost ==
    BothDone =>
       /\ BothStoredAndCounted
       /\ \A w \in Workers :
             pc[w].c.type \in {"food", "workout"} => pc[w].total >= pc[w].entry

(* C29, amended: after two concurrently served loggable messages of one    *)
(* existing owner both records are stored, the summary of the day an entry *)
(* is stamped with counts it, and each reply's running total includes the  *)
(* request's own entry whenever the re-read queried the day the entry is   *)
(* stamped with.                                                           *)
C29_NoWriteLostSameDay ==
    BothDone =>
       /\ BothStoredAndCounted
       /\ \A w \in Workers :
             pc[w].c.type \in {"food", "workout"} =>
                \A r \in RowOf(db, pc[w]) :
                   DayOf(r.created_at) = pc[w].day => pc[w].total >= pc[w].entry

(* C29 witness: two meals were logged concurrently on one day; one reply   *)
(* shows its own entry only, the other the sum of both.                    *)
C29_Witness ==
    /\ BothDone
    /\ \A w \in Workers : pc[w].c.type = "food" /\ pc[w].entry = 350
    /\ \A w \in Workers : \A r \in RowOf(db, pc[w]) : DayOf(r.created_at) = pc[w].day
    /\ pc[1].total = 350 /\ pc[2].total = 700

(* The segments joined in the order they are sent.                         *)
RECURSIVE Join(_)
Join(parts) == IF parts = <<>> THEN <<>> ELSE Head(parts) \o Join(Tail(parts))

(* C30: the segments of a reply, joined in order, are the reply's text,    *)
(* and no segment of a non-empty text is empty.                            *)
C30_ChunkingLosesNothing ==
    last.op = "send" =>
       /\ Join(last.ret) = last.text
       /\ TextLen(last.text) > 0 =>
             \A i \in 1..Len(last.ret) : TextLen(last.ret[i]) > 0

=============================================================================
